---------------------------- MODULE Spec2Model ----------------------------
(***************************************************************************)
(* Vault consistency engine of obsidian-mcp: path containment (PathGuard), *)
(* the tag model, the link rewriter and the backup/rollback note editor.   *)
(*                                                                         *)
(* Text is modelled as a sequence of one-character strings, so that the    *)
(* string operations of the source (split, join, trim, startsWith, regular *)
(* expression replacement) are computed as the source computes them.       *)
(***************************************************************************)
EXTENDS Naturals, Integers, Sequences, FiniteSets, TLC

VARIABLES
  vaultPath,   \* the vault root the tools were created with (main: absolutePath)
  pathCall,    \* the last PathGuard call: its arguments and what it produced
  note,        \* the bytes of the edited note on disk, or Absent
  backup,      \* the bytes of the backup file of each timestamp, or Absent
  ed,          \* each editNote invocation: its arguments, locals and position
  tagCall,     \* the last call into the tag utilities: its arguments and result
  files,       \* the notes of the vault the link rewriter works on: path -> bytes
  moveCall,    \* the last moveNote or deleteNote call: its arguments, the vault
               \* before, the result
  trash,       \* the files of the vault's .trash directory: name and bytes
  batchCall,   \* the last renameTag, addTags or removeTags call: its arguments,
               \* the injected file system fault, the vault before, the report
  backupDir,   \* the snapshot under the vault's .backup directory: path -> bytes
  searchConfig \* .obsidian/search.json: the queries of its savedSearches

pathVars == <<vaultPath, pathCall>>
editVars == <<note, backup, ed>>
tagVars == <<tagCall>>
batchVars == <<batchCall, backupDir, searchConfig>>
linkVars == <<files, moveCall, trash, batchCall, backupDir, searchConfig>>
vars == <<vaultPath, pathCall, note, backup, ed, tagCall, files, moveCall, trash,
          batchCall, backupDir, searchConfig>>

-----------------------------------------------------------------------------
(* Bounds of the model *)

\* longest list of segments handed to safeJoinPath
MaxSegs == 2

-----------------------------------------------------------------------------
(* String helpers: JavaScript's String methods on sequences of characters *)

StartsWith(s, p) == Len(p) <= Len(s) /\ SubSeq(s, 1, Len(p)) = p

EndsWith(s, p) == Len(p) <= Len(s) /\ SubSeq(s, Len(s) - Len(p) + 1, Len(s)) = p

Includes(s, p) == \E i \in 1..(Len(s) - Len(p) + 1) : SubSeq(s, i, i + Len(p) - 1) = p

Slice(s, n) == SubSeq(s, n + 1, Len(s))

\* s.split(c) for a one-character separator c
RECURSIVE SplitOn(_, _)
SplitOn(s, c) ==
  IF \A i \in 1..Len(s) : s[i] # c
  THEN <<s>>
  ELSE LET i == CHOOSE k \in 1..Len(s) : s[k] = c /\ \A j \in 1..(k - 1) : s[j] # c
       IN <<SubSeq(s, 1, i - 1)>> \o SplitOn(SubSeq(s, i + 1, Len(s)), c)

\* parts.join(c)
RECURSIVE JoinWith(_, _)
JoinWith(parts, c) ==
  IF parts = <<>> THEN <<>>
  ELSE IF Len(parts) = 1 THEN parts[1]
  ELSE parts[1] \o c \o JoinWith(Tail(parts), c)

\* s.replace(/c/g, d) for single characters
ReplaceChar(s, c, d) == [i \in 1..Len(s) |-> IF s[i] = c THEN d ELSE s[i]]

Last(s) == s[Len(s)]

\* String.prototype.trim
WhiteSpace == {" ", "\n", "\t", "\r"}

RECURSIVE TrimStart(_)
TrimStart(s) == IF s # <<>> /\ Head(s) \in WhiteSpace THEN TrimStart(Tail(s)) ELSE s

RECURSIVE TrimEnd(_)
TrimEnd(s) ==
  IF s # <<>> /\ Last(s) \in WhiteSpace THEN TrimEnd(SubSeq(s, 1, Len(s) - 1)) ELSE s

Trim(s) == TrimEnd(TrimStart(s))

-----------------------------------------------------------------------------
(* Node's path module, POSIX flavour *)

\* process.cwd() and os.homedir() of the modelled run
Cwd == <<"/", "w">>
HomeDir == <<"/", "h">>

\* normalizeString: drops "" and "." segments and resolves ".." against the
\* segments kept so far; above the root of an absolute path ".." is dropped
RECURSIVE NormSegs(_, _, _)
NormSegs(segs, abs, acc) ==
  IF segs = <<>> THEN acc
  ELSE LET s == Head(segs)
           rest == Tail(segs)
       IN IF s = <<>> \/ s = <<".">> THEN NormSegs(rest, abs, acc)
          ELSE IF s = <<".", ".">>
               THEN IF acc # <<>> /\ Last(acc) # <<".", ".">>
                    THEN NormSegs(rest, abs, SubSeq(acc, 1, Len(acc) - 1))
                    ELSE IF abs THEN NormSegs(rest, abs, acc)
                         ELSE NormSegs(rest, abs, Append(acc, s))
               ELSE NormSegs(rest, abs, Append(acc, s))

\* path.normalize
PosixNormalize(p) ==
  IF p = <<>> THEN <<".">>
  ELSE LET abs == p[1] = "/"
           trailing == Last(p) = "/"
           body == JoinWith(NormSegs(SplitOn(p, "/"), abs, <<>>), <<"/">>)
       IN IF body = <<>>
          THEN IF abs THEN <<"/">> ELSE IF trailing THEN <<".", "/">> ELSE <<".">>
          ELSE (IF abs THEN <<"/">> ELSE <<>>) \o body \o (IF trailing THEN <<"/">> ELSE <<>>)

\* path.join: the non-empty arguments joined by "/" and normalized
PosixJoin(parts) ==
  LET nonEmpty == SelectSeq(parts, LAMBDA x : x # <<>>)
  IN IF nonEmpty = <<>> THEN <<".">> ELSE PosixNormalize(JoinWith(nonEmpty, <<"/">>))

\* path.resolve of one argument against the working directory
PosixResolve(p) ==
  LET full == IF p # <<>> /\ p[1] = "/" THEN p ELSE Cwd \o <<"/">> \o p
      body == JoinWith(NormSegs(SplitOn(full, "/"), TRUE, <<>>), <<"/">>)
  IN <<"/">> \o body

\* s with its trailing "/" characters removed (down to one character)
RECURSIVE StripTrailingSlashes(_)
StripTrailingSlashes(p) ==
  IF Len(p) > 1 /\ Last(p) = "/" THEN StripTrailingSlashes(SubSeq(p, 1, Len(p) - 1)) ELSE p

\* path.dirname
PosixDirname(p) ==
  IF p = <<>> THEN <<".">>
  ELSE LET q == StripTrailingSlashes(p)
           idx == {i \in 1..Len(q) : q[i] = "/"}
       IN IF idx = {} THEN <<".">>
          ELSE LET last == CHOOSE i \in idx : \A j \in idx : j <= i
               IN IF last = 1 THEN <<"/">>
                  ELSE StripTrailingSlashes(SubSeq(q, 1, last - 1))

-----------------------------------------------------------------------------
(* PathGuard: src/utils/path.ts *)

\* the value that stands for a thrown McpError / a rejected promise
Err == <<"!ERR">>

\* a file that does not exist
Absent == <<"!ABSENT">>

Letters == {"a", "b", "d", "h", "l", "o", "v", "w", "x", "C"}

\* the characters normalizePath refuses in the filename portion
InvalidFilenameChars == {"<", ">", "\"", "|", "?", "*"}

\* the last component under String.split(/[\\/]/).pop() || ''
Filename(p) == Last(SplitOn(ReplaceChar(p, "\\", "/"), "/"))

\* /^[A-Za-z]:$/ and /^[a-zA-Z]:[\\/]/
IsDriveOnly(f) == Len(f) = 2 /\ f[1] \in Letters /\ f[2] = ":"
HasDrivePrefix(p) == Len(p) >= 3 /\ p[1] \in Letters /\ p[2] = ":" /\ p[3] \in {"\\", "/"}

IsRelativeStart(p) == StartsWith(p, <<".", "/">>) \/ StartsWith(p, <<".", ".", "/">>)

normalizePath(inputPath) ==
  IF inputPath = <<>> THEN Err
  ELSE LET filename == Filename(inputPath)
       IN IF (\E i \in 1..Len(filename) : filename[i] \in InvalidFilenameChars)
             \/ ((\E i \in 1..Len(filename) : filename[i] = ":") /\ ~IsDriveOnly(filename))
          THEN Err
          ELSE IF StartsWith(inputPath, <<"\\", "\\">>)
          THEN <<"/", "/">> \o ReplaceChar(Slice(inputPath, 2), "\\", "/")
          ELSE IF HasDrivePrefix(inputPath)
          THEN ReplaceChar(PosixNormalize(inputPath), "\\", "/")
          ELSE IF IsRelativeStart(inputPath)
          THEN PosixResolve(PosixNormalize(inputPath))
          ELSE LET normalized == ReplaceChar(inputPath, "\\", "/")
               IN IF IsRelativeStart(normalized) THEN PosixResolve(normalized)
                  ELSE normalized

\* p.replace(/[\/\\]+$/, ''): every trailing separator removed
RECURSIVE StripSeparators(_)
StripSeparators(p) ==
  IF p # <<>> /\ Last(p) \in {"/", "\\"} THEN StripSeparators(SubSeq(p, 1, Len(p) - 1)) ELSE p

\* the components of path.resolve(p)
ResolvedSegs(p) == NormSegs(SplitOn(PosixResolve(p), "/"), TRUE, <<>>)

\* path.relative: both paths resolved, ".." for every component of from
\* below the common directory, then the components of to below it
PosixRelative(from, to) ==
  LET f == ResolvedSegs(from)
      t == ResolvedSegs(to)
      most == IF Len(f) < Len(t) THEN Len(f) ELSE Len(t)
      common == CHOOSE n \in 0..most :
                  /\ \A i \in 1..n : f[i] = t[i]
                  /\ (n = most \/ f[n + 1] # t[n + 1])
  IN JoinWith([i \in 1..(Len(f) - common) |-> <<".", ".">>] \o SubSeq(t, common + 1, Len(t)),
              <<"/">>)

isParentPath(parent, child) ==
  LET relativePath == PosixRelative(parent, child)
  IN ~StartsWith(relativePath, <<".", ".">>) /\ ~StartsWith(relativePath, <<"/">>)

\* checkPathOverlap: "ok" when it returns, else the error it throws
checkPathOverlap(paths) ==
  LET normalizedPaths == [i \in 1..Len(paths) |-> StripSeparators(PosixNormalize(paths[i]))]
  IN IF \E i, j \in 1..Len(paths) : i < j /\ normalizedPaths[i] = normalizedPaths[j]
     THEN "Duplicate vault path provided"
     ELSE IF \E i, j \in 1..Len(paths) :
               /\ i < j
               /\ \/ isParentPath(normalizedPaths[i], normalizedPaths[j])
                  \/ isParentPath(normalizedPaths[j], normalizedPaths[i])
     THEN "Vault paths cannot overlap"
     ELSE "ok"

\* fs.realpath as the file system answers it: an error (the path does not
\* exist, a symlink loop), the path itself (no symlink on the way), or the
\* place a symlink on the way leads to
LinkTargets == { <<"/", "o">>, <<"/", "w", "/", "v", "/", "a">>, <<"/", "v", "2", "/", "x">>,
                 <<"/", "v", "/", "a">>, <<"/", "d", "/", "v", "/", "a">> }
RealpathAnswers == {[kind |-> "error", to |-> <<>>], [kind |-> "same", to |-> <<>>]}
                     \cup {[kind |-> "link", to |-> t] : t \in LinkTargets}

Realpath(p, answer) ==
  IF answer.kind = "error" THEN Err
  ELSE IF answer.kind = "same" THEN PosixResolve(p)
  ELSE answer.to

\* what the inner catch of checkPathSafety returns when the parent directory
\* cannot be resolved either
ParentUnresolvedAccepts == "true"
ParentUnresolved == "false"

\* async checkPathSafety: the value its promise settles to
checkPathSafety(basePath, targetPath, rpTarget, rpParent) ==
  LET resolvedPath == normalizePath(targetPath)
      resolvedBasePath == normalizePath(basePath)
  IN IF resolvedPath = Err \/ resolvedBasePath = Err THEN "rejected"
     ELSE LET realPath == Realpath(resolvedPath, rpTarget)
              normalizedReal == IF realPath = Err THEN Err ELSE normalizePath(realPath)
          IN IF normalizedReal # Err
             THEN IF ~StartsWith(normalizedReal, resolvedBasePath) THEN "false"
                  ELSE IF StartsWith(resolvedPath, resolvedBasePath) THEN "true" ELSE "false"
             ELSE LET parentDir == PosixDirname(resolvedPath)
                      realParentPath == Realpath(parentDir, rpParent)
                      normalizedParent ==
                        IF realParentPath = Err THEN Err ELSE normalizePath(realParentPath)
                  IN IF normalizedParent = Err THEN ParentUnresolved
                     ELSE IF StartsWith(normalizedParent, resolvedBasePath) THEN "true"
                          ELSE "false"

\* JavaScript truthiness of what a call expression evaluates to: a Promise is
\* an object, and every object is truthy
IsTruthy(v) == v.kind = "promise" \/ (v.kind = "boolean" /\ v.value = "true")

\* validateVaultPath: tests the value of the call to the async function
validateVaultPath(basePath, targetPath, rpTarget, rpParent) ==
  LET returned == [kind |-> "promise",
                   value |-> checkPathSafety(basePath, targetPath, rpTarget, rpParent)]
  IN IF ~IsTruthy(returned) THEN "threw" ELSE "returned"

safeJoinPath(basePath, segments, rpTarget, rpParent) ==
  LET joined == PosixJoin(<<basePath>> \o segments)
      resolved == normalizePath(joined)
  IN IF resolved = Err THEN Err
     ELSE IF validateVaultPath(basePath, resolved, rpTarget, rpParent) = "threw" THEN Err
     ELSE resolved

\* main: a vault argument is expanded, normalized, stripped of trailing
\* separators and made absolute before any tool sees it
VaultRootUnresolved(arg) == arg
VaultRoot(arg) ==
  LET expandedPath == IF StartsWith(arg, <<"~">>) THEN PosixJoin(<<HomeDir, Slice(arg, 1)>>) ELSE arg
      normalizedPath == StripTrailingSlashes(PosixNormalize(expandedPath))
  IN PosixResolve(normalizedPath)

-----------------------------------------------------------------------------
(* TagModel: src/utils/tags.ts *)

\* the element of a text that stands for the backtick character (U+0060)
Backtick == "backtick"

LowerChars == {"a", "b", "c", "d", "e", "g", "k", "o", "p", "r", "s", "t", "w", "x", "y", "z"}
UpperChars == {"A", "B", "C"}
DigitChars == {"1", "2"}
AlNum == LowerChars \cup UpperChars \cup DigitChars

\* String.prototype.toLowerCase on one character
LowerOf(c) == CASE c = "A" -> "a" [] c = "B" -> "b" [] c = "C" -> "c" [] OTHER -> c
ToLowerCase(s) == [i \in 1..Len(s) |-> LowerOf(s[i])]

\* the order of UTF-16 code units, for Array.prototype.sort
CharOrder == <<"\n", " ", "!", "#", "-", ".", "/", "1", "2", ":", "<", ">",
               "A", "B", "C", "[", "]", Backtick,
               "a", "b", "c", "d", "e", "g", "k", "o", "p", "r", "s", "t", "w", "x", "y", "z">>
Rank(c) == CHOOSE i \in 1..Len(CharOrder) : CharOrder[i] = c

RECURSIVE StrLess(_, _)
StrLess(s, t) ==
  IF t = <<>> THEN FALSE
  ELSE IF s = <<>> THEN TRUE
  ELSE IF Head(s) = Head(t) THEN StrLess(Tail(s), Tail(t))
  ELSE Rank(Head(s)) < Rank(Head(t))

\* Array.prototype.sort() on strings
RECURSIVE InsertSorted(_, _)
InsertSorted(sorted, x) ==
  IF sorted = <<>> THEN <<x>>
  ELSE IF StrLess(x, Head(sorted)) THEN <<x>> \o sorted
  ELSE <<Head(sorted)>> \o InsertSorted(Tail(sorted), x)

RECURSIVE Sort(_)
Sort(xs) == IF xs = <<>> THEN <<>> ELSE InsertSorted(Sort(SubSeq(xs, 1, Len(xs) - 1)), Last(xs))

Contains(xs, x) == \E i \in 1..Len(xs) : xs[i] = x

\* Array.from(new Set(xs)): the first occurrence of each element, in order
RECURSIVE Dedup(_)
Dedup(xs) ==
  IF xs = <<>> THEN <<>>
  ELSE LET front == Dedup(SubSeq(xs, 1, Len(xs) - 1))
       IN IF Contains(front, Last(xs)) THEN front ELSE Append(front, Last(xs))

RECURSIVE Flatten(_)
Flatten(parts) == IF parts = <<>> THEN <<>> ELSE Head(parts) \o Flatten(Tail(parts))

isParentTag(parentTag, childTag) == StartsWith(childTag, parentTag \o <<"/">>)

\* matchesTagPattern: "*" becomes ".*", every other character of the modelled
\* patterns stands for itself, and the match is anchored at both ends
RECURSIVE GlobMatch(_, _)
GlobMatch(pattern, tag) ==
  IF pattern = <<>> THEN tag = <<>>
  ELSE IF Head(pattern) = "*"
       THEN \E k \in 0..Len(tag) : GlobMatch(Tail(pattern), Slice(tag, k))
       ELSE tag # <<>> /\ Head(tag) = Head(pattern) /\ GlobMatch(Tail(pattern), Tail(tag))

matchesTagPattern(pattern, tag) == GlobMatch(pattern, tag)

\* getRelatedTags: the strict prefixes of the hierarchy, and the tags of
\* allTags below the tag
getRelatedTags(tag, allTags) ==
  LET parts == SplitOn(tag, "/")
  IN [parents |-> [i \in 1..(Len(parts) - 1) |-> JoinWith(SubSeq(parts, 1, i), <<"/">>)],
      children |-> SelectSeq(allTags, LAMBDA otherTag : isParentTag(tag, otherTag))]

\* tag.replace(/^#/, '')
StripHash(tag) == IF tag # <<>> /\ Head(tag) = "#" THEN Tail(tag) ELSE tag

validateTag(tag) ==
  LET t == StripHash(tag)
      parts == SplitOn(t, "/")
  IN t # <<>> /\ \A i \in 1..Len(parts) :
                    parts[i] # <<>> /\ \A j \in 1..Len(parts[i]) : parts[i][j] \in AlNum

\* a replace whose second class takes every letter, /([a-z0-9])([A-Za-z])/g
RECURSIVE HyphenateAnyLetter(_)
HyphenateAnyLetter(part) ==
  IF Len(part) < 2 THEN part
  ELSE IF part[1] \in (LowerChars \cup DigitChars) /\ part[2] \in (LowerChars \cup UpperChars)
       THEN <<part[1], "-", part[2]>> \o HyphenateAnyLetter(Slice(part, 2))
       ELSE <<part[1]>> \o HyphenateAnyLetter(Tail(part))

\* part.replace(/([a-z0-9])([A-Z])/g, '$1-$2')
RECURSIVE Hyphenate(_)
Hyphenate(part) ==
  IF Len(part) < 2 THEN part
  ELSE IF part[1] \in (LowerChars \cup DigitChars) /\ part[2] \in UpperChars
       THEN <<part[1], "-", part[2]>> \o Hyphenate(Slice(part, 2))
       ELSE <<part[1]>> \o Hyphenate(Tail(part))

normalizeTag(tag, normalize) ==
  LET t == StripHash(tag)
      parts == SplitOn(t, "/")
  IN IF ~normalize THEN t
     ELSE JoinWith([i \in 1..Len(parts) |-> ToLowerCase(Hyphenate(parts[i]))], <<"/">>)

\* TAG_PATTERN tried at position i of the line: a "#" not preceded by a
\* backtick, one alphanumeric, then alphanumerics and "/", not followed by a
\* backtick. The result is the number of characters matched after the "#",
\* 0 when there is no match; the greedy star gives one character back when a
\* backtick follows.
TagMatchLen(line, i) ==
  IF ~(/\ line[i] = "#"
       /\ (i = 1 \/ line[i - 1] # Backtick)
       /\ i + 1 <= Len(line)
       /\ line[i + 1] \in AlNum)
  THEN 0
  ELSE LET run == CHOOSE k \in 1..(Len(line) - i) :
                    /\ \A j \in 1..k : line[i + j] \in AlNum \cup {"/"}
                    /\ (i + k + 1 > Len(line) \/ line[i + k + 1] \notin AlNum \cup {"/"})
       IN IF i + run + 1 <= Len(line) /\ line[i + run + 1] = Backtick THEN run - 1 ELSE run

\* the line cut into the matches of the tag pattern (/g) and the single
\* characters between them
RECURSIVE TagTokens(_, _)
TagTokens(line, i) ==
  IF i > Len(line) THEN <<>>
  ELSE LET k == TagMatchLen(line, i)
       IN IF k > 0
          THEN <<[isTag |-> TRUE, text |-> SubSeq(line, i, i + k)]>> \o TagTokens(line, i + k + 1)
          ELSE <<[isTag |-> FALSE, text |-> <<line[i]>>]>> \o TagTokens(line, i + 1)

\* line.match(TAG_PATTERN) || []
TagMatches(line) ==
  LET toks == SelectSeq(TagTokens(line, 1), LAMBDA t : t.isTag)
  IN [i \in 1..Len(toks) |-> toks[i].text]

FenceMarker == <<Backtick, Backtick, Backtick>>
CommentOpen == <<"<", "!", "-", "-">>
CommentClose == <<"-", "-", ">">>

IsFenceLine(line) == StartsWith(Trim(line), FenceMarker)

\* the scanner's flags after the lines before line n, and whether line n is
\* skipped: [inCodeBlock, inHtmlComment] as they stand before line n
RECURSIVE ScanState(_, _)
ScanState(lines, n) ==
  IF n = 1 THEN [inCodeBlock |-> FALSE, inHtmlComment |-> FALSE]
  ELSE LET before == ScanState(lines, n - 1)
           line == lines[n - 1]
       IN IF IsFenceLine(line)
          THEN [before EXCEPT !.inCodeBlock = ~before.inCodeBlock]
          ELSE LET opened == IF Includes(line, CommentOpen) THEN TRUE ELSE before.inHtmlComment
                   closed == IF Includes(line, CommentClose) THEN FALSE ELSE opened
               IN [before EXCEPT !.inHtmlComment = closed]

\* the flags after line n's own markers were looked at (a fence line toggles
\* and is passed over before the comment markers are looked at)
AfterMarkers(lines, n) == ScanState(lines, n + 1)

\* whether line n is left alone by the scanner
LineIsInert(lines, n) ==
  \/ IsFenceLine(lines[n])
  \/ AfterMarkers(lines, n).inCodeBlock
  \/ AfterMarkers(lines, n).inHtmlComment

extractTags(content) ==
  LET lines == SplitOn(content, "\n")
      found == [n \in 1..Len(lines) |->
                  IF LineIsInert(lines, n) THEN <<>>
                  ELSE LET ms == TagMatches(lines[n]) IN [i \in 1..Len(ms) |-> Tail(ms[i])]]
  IN Dedup(Flatten(found))

\* A frontmatter mapping is the sequence of its entries in insertion order;
\* a value is a list of strings, a plain scalar or null
TagsKey == <<"t", "a", "g", "s">>
ListValue(items) == [type |-> "list", items |-> items, text |-> <<>>]
ScalarValue(text) == [type |-> "scalar", items |-> <<>>, text |-> text]
NullValue == [type |-> "null", items |-> <<>>, text |-> <<>>]

HasKey(fm, key) == \E i \in 1..Len(fm) : fm[i].key = key
Get(fm, key) == fm[CHOOSE i \in 1..Len(fm) : fm[i].key = key].val

\* { ...frontmatter } followed by updated[key] = val: an existing key keeps
\* its place, a new one goes last
Set(fm, key, val) ==
  IF HasKey(fm, key)
  THEN [i \in 1..Len(fm) |-> IF fm[i].key = key THEN [key |-> key, val |-> val] ELSE fm[i]]
  ELSE Append(fm, [key |-> key, val |-> val])

\* Array.isArray(frontmatter.tags) ? frontmatter.tags : []
ExistingTags(fm) ==
  IF HasKey(fm, TagsKey) /\ Get(fm, TagsKey).type = "list" THEN Get(fm, TagsKey).items ELSE <<>>

DefaultOptions == [normalize |-> TRUE, preserveChildren |-> FALSE, patterns |-> <<>>]

\* relatedTagsMap.get(removeTag): filled only when children are preserved
RelatedTags(removeTag, existingTags, options) ==
  IF options.preserveChildren
  THEN [isNull |-> FALSE, parents |-> getRelatedTags(removeTag, existingTags).parents]
  ELSE [isNull |-> TRUE, parents |-> <<>>]

\* shouldRemove of removeTagsFromFrontmatter
FrontmatterShouldRemove(normalizedTag, tagsToRemove, existingTags, options) ==
  \E r \in 1..Len(tagsToRemove) :
    LET removeTag == tagsToRemove[r]
        related == RelatedTags(removeTag, existingTags, options)
    IN \/ normalizeTag(removeTag, options.normalize) = normalizedTag
       \/ \E q \in 1..Len(options.patterns) : matchesTagPattern(options.patterns[q], normalizedTag)
       \/ /\ ~options.preserveChildren
          /\ ~related.isNull
          /\ Contains(related.parents, normalizedTag)

removeTagsFromFrontmatter(frontmatter, tagsToRemove, options) ==
  LET existingTags == ExistingTags(frontmatter)
      goes(tag) == FrontmatterShouldRemove(normalizeTag(tag, options.normalize),
                                           tagsToRemove, existingTags, options)
      newTags == SelectSeq(existingTags, LAMBDA tag : ~goes(tag))
      change(tag) == [tag |-> normalizeTag(tag, options.normalize), location |-> "frontmatter"]
      gone == SelectSeq(existingTags, goes)
      kept == newTags
  IN [frontmatter |-> Set(frontmatter, TagsKey, ListValue(Sort(newTags))),
      removed |-> [i \in 1..Len(gone) |-> change(gone[i])],
      preserved |-> [i \in 1..Len(kept) |-> change(kept[i])]]

addTagsToFrontmatter(frontmatter, newTags, normalize) ==
  IF \E i \in 1..Len(newTags) : ~validateTag(newTags[i])
  THEN [error |-> "InvalidParams", frontmatter |-> frontmatter]
  ELSE [error |-> "none",
        frontmatter |-> Set(frontmatter, TagsKey,
                            ListValue(Sort(Dedup(ExistingTags(frontmatter) \o
                              [i \in 1..Len(newTags) |-> normalizeTag(newTags[i], normalize)]))))]

\* shouldRemove of removeInlineTags
InlineShouldRemove(normalizedTag, tagsToRemove, options) ==
  \E r \in 1..Len(tagsToRemove) :
    LET removeTag == tagsToRemove[r]
    IN \/ normalizeTag(removeTag, options.normalize) = normalizedTag
       \/ \E q \in 1..Len(options.patterns) : matchesTagPattern(options.patterns[q], normalizedTag)
       \/ ~options.preserveChildren /\ isParentTag(removeTag, normalizedTag)

\* what lines.map of removeInlineTags does with line n
RemoveInLine(lines, n, tagsToRemove, options) ==
  LET line == lines[n]
      toks == TagTokens(line, 1)
      tags == SelectSeq(toks, LAMBDA t : t.isTag)
      norm(t) == normalizeTag(Tail(t.text), options.normalize)
      goes(t) == t.isTag /\ InlineShouldRemove(norm(t), tagsToRemove, options)
      change(tag) == [tag |-> tag, location |-> "content", line |-> n, context |-> Trim(line)]
      gone == SelectSeq(tags, goes)
      kept == SelectSeq(tags, LAMBDA t : ~goes(t))
  IN IF IsFenceLine(line)
     THEN [line |-> line, removed |-> <<>>, preserved |-> <<>>]
     ELSE IF LineIsInert(lines, n)
     THEN [line |-> line, removed |-> <<>>,
           preserved |-> [i \in 1..Len(tags) |-> change(Tail(tags[i].text))]]
     ELSE [line |-> Flatten([i \in 1..Len(toks) |-> IF goes(toks[i]) THEN <<>> ELSE toks[i].text]),
           removed |-> [i \in 1..Len(gone) |-> change(norm(gone[i]))],
           preserved |-> [i \in 1..Len(kept) |-> change(norm(kept[i]))]]

\* the reduce that drops a blank line following a blank line
RECURSIVE CollapseBlankLines(_)
CollapseBlankLines(lines) ==
  IF lines = <<>> THEN <<>>
  ELSE LET acc == CollapseBlankLines(SubSeq(lines, 1, Len(lines) - 1))
           line == Last(lines)
       IN IF Trim(line) = <<>> /\ acc # <<>> /\ Trim(Last(acc)) = <<>>
          THEN acc
          ELSE Append(acc, line)

removeInlineTags(content, tagsToRemove, options) ==
  LET lines == SplitOn(content, "\n")
      done == [n \in 1..Len(lines) |-> RemoveInLine(lines, n, tagsToRemove, options)]
      modifiedLines == CollapseBlankLines([n \in 1..Len(lines) |-> done[n].line])
  IN [content |-> JoinWith(modifiedLines, <<"\n">>),
      removed |-> Flatten([n \in 1..Len(lines) |-> done[n].removed]),
      preserved |-> Flatten([n \in 1..Len(lines) |-> done[n].preserved])]

\* a test that takes the old tag itself and none of its descendants
ReplacementForExactOnly(normalizedTag, replacements, normalize) ==
  LET hits == {r \in 1..Len(replacements) :
                 normalizedTag = normalizeTag(replacements[r].oldTag, normalize)}
  IN IF hits = {} THEN 0 ELSE CHOOSE r \in hits : \A q \in hits : r <= q

\* rename-tag: the first replacement whose old tag is the tag or an ancestor
\* of it, 0 when there is none
ReplacementFor(normalizedTag, replacements, normalize) ==
  LET hits == {r \in 1..Len(replacements) :
                 LET normalizedOldTag == normalizeTag(replacements[r].oldTag, normalize)
                 IN \/ normalizedTag = normalizedOldTag
                    \/ StartsWith(normalizedTag, normalizedOldTag \o <<"/">>)}
  IN IF hits = {} THEN 0 ELSE CHOOSE r \in hits : \A q \in hits : r <= q

\* normalizedTag.replace(new RegExp("^" + normalizedOldTag), newTag); the old
\* tag is a prefix of the tag here and holds letters, digits, "-" and "/"
UpdatedTag(normalizedTag, replacement, normalize) ==
  normalizeTag(replacement.newTag, normalize) \o
    Slice(normalizedTag, Len(normalizeTag(replacement.oldTag, normalize)))

\* what lines.map of updateInlineTags does with line n
UpdateInLine(lines, n, replacements, normalize) ==
  LET line == lines[n]
      toks == TagTokens(line, 1)
      norm(t) == normalizeTag(Tail(t.text), normalize)
      hit(t) == IF t.isTag THEN ReplacementFor(norm(t), replacements, normalize) ELSE 0
      changed == SelectSeq(toks, LAMBDA t : hit(t) # 0)
  IN IF LineIsInert(lines, n)
     THEN [line |-> line, changes |-> <<>>]
     ELSE [line |-> Flatten([i \in 1..Len(toks) |->
                      IF hit(toks[i]) # 0
                      THEN <<"#">> \o UpdatedTag(norm(toks[i]), replacements[hit(toks[i])], normalize)
                      ELSE toks[i].text]),
           changes |-> [i \in 1..Len(changed) |->
                          [oldTag |-> norm(changed[i]),
                           newTag |-> UpdatedTag(norm(changed[i]),
                                                 replacements[hit(changed[i])], normalize),
                           line |-> n]]]

updateInlineTags(content, replacements, normalize) ==
  LET lines == SplitOn(content, "\n")
      done == [n \in 1..Len(lines) |-> UpdateInLine(lines, n, replacements, normalize)]
  IN [content |-> JoinWith([n \in 1..Len(lines) |-> done[n].line], <<"\n">>),
      changes |-> Flatten([n \in 1..Len(lines) |-> done[n].changes])]

\* The YAML documents of the model: one line per key, "key: scalar",
\* "key: [a, b]" or "key:" followed by "- item" lines; anything else is
\* answered with an error, as is a key given twice
IsItemLine(line) == StartsWith(TrimStart(line), <<"-", " ">>)

KeyOf(line) == Head(SplitOn(line, ":"))

IsKeyLine(line) ==
  /\ Includes(line, <<":">>)
  /\ KeyOf(line) # <<>>
  /\ \A i \in 1..Len(KeyOf(line)) : KeyOf(line)[i] \in AlNum
  /\ LET rest == Slice(line, Len(KeyOf(line)) + 1) IN rest = <<>> \/ Head(rest) = " "

FlowItems(value) ==
  LET inner == SubSeq(value, 2, Len(value) - 1)
      parts == SplitOn(inner, ",")
  IN IF Trim(inner) = <<>> THEN <<>> ELSE [i \in 1..Len(parts) |-> Trim(parts[i])]

YamlValueOf(line) ==
  LET value == Trim(Slice(line, Len(KeyOf(line)) + 1))
  IN IF value = <<>> \/ value = <<"n", "u", "l", "l">> THEN NullValue
     ELSE IF Head(value) = "[" /\ Last(value) = "]" THEN ListValue(FlowItems(value))
     ELSE ScalarValue(value)

\* the mapping read from lines[i..], added to the entries read so far; open
\* tells that the last key may still receive "- item" lines
RECURSIVE ParseYamlLines(_, _, _, _)
ParseYamlLines(lines, i, fm, open) ==
  IF i > Len(lines) THEN [error |-> FALSE, value |-> fm]
  ELSE LET line == lines[i]
       IN IF Trim(line) = <<>> THEN ParseYamlLines(lines, i + 1, fm, open)
          ELSE IF IsItemLine(line)
          THEN IF ~open THEN [error |-> TRUE, value |-> <<>>]
               ELSE LET last == Last(fm)
                        item == Trim(Slice(TrimStart(line), 2))
                    IN ParseYamlLines(lines, i + 1,
                         Set(fm, last.key, ListValue(Append(last.val.items, item))), TRUE)
          ELSE IF IsKeyLine(line) /\ ~HasKey(fm, KeyOf(line))
          THEN ParseYamlLines(lines, i + 1,
                 Append(fm, [key |-> KeyOf(line), val |-> YamlValueOf(line)]),
                 Slice(line, Len(KeyOf(line)) + 1) = <<>>)
          ELSE [error |-> TRUE, value |-> <<>>]

\* parse of the yaml package; the empty document is null
parseYaml(text) == ParseYamlLines(SplitOn(text, "\n"), 1, <<>>, FALSE)

\* stringify of the yaml package: block style, sequences indented by two
YamlEntry(entry) ==
  IF entry.val.type = "scalar" THEN entry.key \o <<":", " ">> \o entry.val.text \o <<"\n">>
  ELSE IF entry.val.type = "null" THEN entry.key \o <<":", " ", "n", "u", "l", "l", "\n">>
  ELSE IF entry.val.items = <<>> THEN entry.key \o <<":", " ", "[", "]", "\n">>
  ELSE entry.key \o <<":", "\n">> \o
       Flatten([i \in 1..Len(entry.val.items) |->
                  <<" ", " ", "-", " ">> \o entry.val.items[i] \o <<"\n">>])

stringifyYaml(fm) ==
  IF fm = <<>> THEN <<"{", "}", "\n">> ELSE Flatten([i \in 1..Len(fm) |-> YamlEntry(fm[i])])

FrontmatterOpen == <<"-", "-", "-", "\n">>
FrontmatterClose == <<"\n", "-", "-", "-", "\n">>

\* where the lazy group of frontmatterRegex ends: the first "\n---\n" after
\* the opening line, 0 when the expression does not match
FrontmatterEnd(content) ==
  LET ends == {j \in 5..(Len(content) - 4) : SubSeq(content, j, j + 4) = FrontmatterClose}
  IN IF ~StartsWith(content, FrontmatterOpen) \/ ends = {} THEN 0
     ELSE CHOOSE j \in ends : \A k \in ends : j <= k

parseNote(content) ==
  LET j == FrontmatterEnd(content)
      yaml == parseYaml(SubSeq(content, 5, j - 1))
  IN IF j = 0
     THEN [error |-> "none", frontmatter |-> <<>>, content |-> content, hasFrontmatter |-> FALSE]
     ELSE IF yaml.error
     THEN [error |-> "InvalidParams", frontmatter |-> <<>>, content |-> <<>>,
           hasFrontmatter |-> FALSE]
     ELSE [error |-> "none", frontmatter |-> yaml.value, content |-> Slice(content, j + 4),
           hasFrontmatter |-> TRUE]

stringifyNote(parsed) ==
  IF ~parsed.hasFrontmatter \/ parsed.frontmatter = <<>>
  THEN parsed.content
  ELSE FrontmatterOpen \o Trim(stringifyYaml(parsed.frontmatter)) \o FrontmatterClose \o
       <<"\n">> \o Trim(parsed.content)

NoTagCall == [op |-> "none", frontmatter |-> <<>>, content |-> <<>>, tags |-> <<>>,
              options |-> DefaultOptions, replacements |-> <<>>, out |-> <<>>]

TagIdle == tagCall = NoTagCall

-----------------------------------------------------------------------------
(* LinkRewriter: utils/links, updateLinksInFile and updateVaultLinks *)

MdExt == <<".", "m", "d">>

\* path.basename(p, ".md") of a path of the model, whose last segment is not
\* the extension alone
Basename(p, ext) ==
  LET base == Last(SplitOn(p, "/"))
  IN IF EndsWith(base, ext) /\ base # ext THEN SubSeq(base, 1, Len(base) - Len(ext)) ELSE base

\* The note name as the regular expression reads it, spliced in unescaped:
\* "." stands for any character but a newline, "+" repeats the atom before
\* it, every other character of the modelled names stands for itself
RECURSIVE RegexAtoms(_)
RegexAtoms(name) ==
  IF name = <<>> THEN <<>>
  ELSE LET plus == Len(name) >= 2 /\ name[2] = "+"
       IN <<[char |-> name[1], any |-> name[1] = ".", plus |-> plus]>> \o
          RegexAtoms(Slice(name, IF plus THEN 2 ELSE 1))

\* the note name read character by character
LiteralAtoms(name) == [i \in 1..Len(name) |-> [char |-> name[i], any |-> FALSE, plus |-> FALSE]]

AtomMatches(atom, ch) == IF atom.any THEN ch # "\n" ELSE ch = atom.char

\* the positions following a match of the atoms that begins at position i
RECURSIVE NameEnds(_, _, _)
NameEnds(atoms, text, i) ==
  IF atoms = <<>> THEN {i}
  ELSE LET atom == Head(atoms)
           runs == {k \in 1..(Len(text) - i + 1) :
                      \A j \in 0..(k - 1) : AtomMatches(atom, text[i + j])}
       IN UNION {NameEnds(Tail(atoms), text, i + k) :
                   k \in IF atom.plus THEN runs ELSE runs \cap {1}}

At(text, i, part) == i + Len(part) - 1 <= Len(text) /\ SubSeq(text, i, i + Len(part) - 1) = part

\* the first "]" at or after position i, 0 when there is none
NextBracket(text, i) ==
  IF \E k \in i..Len(text) : text[k] = "]"
  THEN CHOOSE k \in i..Len(text) : text[k] = "]" /\ \A j \in i..(k - 1) : text[j] # "]"
  ELSE 0

\* what follows the name in the wiki link expression, tried at position e:
\* the optional "|alias" group and the closing brackets
WikiTail(text, e) ==
  LET k == NextBracket(text, e + 1)
  IN IF At(text, e, <<"|">>) /\ k # 0 /\ At(text, k, <<"]", "]">>)
     THEN [found |-> TRUE, group |-> SubSeq(text, e, k - 1), next |-> k + 2]
     ELSE IF At(text, e, <<"]", "]">>)
     THEN [found |-> TRUE, group |-> <<>>, next |-> e + 2]
     ELSE [found |-> FALSE, group |-> <<>>, next |-> e]

NoMatch == [found |-> FALSE, group |-> <<>>, next |-> 0]

\* the wiki link expression tried at position i; the repetition is greedy
WikiMatch(atoms, text, i) ==
  LET ends == IF At(text, i, <<"[", "[">>)
              THEN {e \in NameEnds(atoms, text, i + 2) : WikiTail(text, e).found}
              ELSE {}
  IN IF ends = {} THEN NoMatch
     ELSE WikiTail(text, CHOOSE e \in ends : \A d \in ends : d <= e)

\* the markdown link expression tried at position i: "[", the text up to the
\* first "]", "(", the name, ".md)"
MdMatch(atoms, text, i) ==
  LET k == NextBracket(text, i + 1)
      ends == IF At(text, i, <<"[">>) /\ k # 0 /\ At(text, k + 1, <<"(">>)
              THEN {e \in NameEnds(atoms, text, k + 2) : At(text, e, MdExt \o <<")">>)}
              ELSE {}
  IN IF ends = {} THEN NoMatch
     ELSE [found |-> TRUE, group |-> SubSeq(text, i + 1, k - 1),
           next |-> (CHOOSE e \in ends : \A d \in ends : d <= e) + 4]

\* content.replace(wiki link expression, prefix [[target$1]] suffix)
RECURSIVE ReplaceWikiLinks(_, _, _, _)
ReplaceWikiLinks(text, i, atoms, form) ==
  IF i > Len(text) THEN <<>>
  ELSE LET m == WikiMatch(atoms, text, i)
       IN IF m.found
          THEN form.prefix \o <<"[", "[">> \o form.target \o m.group \o <<"]", "]">> \o form.suffix
               \o ReplaceWikiLinks(text, m.next, atoms, form)
          ELSE <<text[i]>> \o ReplaceWikiLinks(text, i + 1, atoms, form)

\* content.replace(markdown link expression, prefix [$1](target.md) suffix)
RECURSIVE ReplaceMdLinks(_, _, _, _)
ReplaceMdLinks(text, i, atoms, form) ==
  IF i > Len(text) THEN <<>>
  ELSE LET m == MdMatch(atoms, text, i)
       IN IF m.found
          THEN form.prefix \o <<"[">> \o m.group \o <<"]", "(">> \o form.target \o MdExt \o <<")">>
               \o form.suffix \o ReplaceMdLinks(text, m.next, atoms, form)
          ELSE <<text[i]>> \o ReplaceMdLinks(text, i + 1, atoms, form)

NoPath == <<"!NONE">>
MovedFrom(vaultName) == <<" ", "*", "(", "m", "o", "v", "e", "d", " ", "f", "r", "o", "m", " ">>
                        \o vaultName \o <<")", "*">>

\* the four branches of updateLinksInFile: what is written around a link
LinkForm(oldName, o) ==
  IF o.isMovedToOtherVault
  THEN [prefix |-> <<>>, target |-> o.destVaultName \o <<"/">> \o oldName, suffix |-> <<>>]
  ELSE IF o.isMovedFromOtherVault
  THEN [prefix |-> <<>>, target |-> Basename(o.newPath, MdExt),
        suffix |-> MovedFrom(o.sourceVaultName)]
  ELSE IF o.newPath = NoPath
  THEN [prefix |-> <<"~", "~">>, target |-> oldName, suffix |-> <<"~", "~">>]
  ELSE [prefix |-> <<>>, target |-> Basename(o.newPath, MdExt), suffix |-> <<>>]

\* newContent of updateLinksInFile for the options o (LinkUpdateOptions);
\* the file is written when it differs from content
updateLinksInFile(content, o) ==
  LET oldName == Basename(o.oldPath, MdExt)
      form == LinkForm(oldName, o)
  IN ReplaceMdLinks(ReplaceWikiLinks(content, 1, RegexAtoms(oldName), form),
                    1, RegexAtoms(oldName), form)

\* notes of the vault, kept at its root, in the order readdir lists them
NoteNames == << <<"b">>, <<"b", "+">>, <<"b", "b">>, <<"c">>, <<"n">> >>
NotePaths == [i \in 1..Len(NoteNames) |-> NoteNames[i] \o MdExt]
PathSet == {NotePaths[i] : i \in 1..Len(NotePaths)}

\* getAllMarkdownFiles: the notes that exist
getAllMarkdownFiles(fs) == SelectSeq(NotePaths, LAMBDA f : fs[f] # Absent)

\* updateVaultLinks for a move inside one vault: the files after the first
\* upTo listed files were handled, the moved note itself passed over
RECURSIVE LinksUpdated(_, _, _, _, _)
LinksUpdated(fs, listed, upTo, oldPath, newPath) ==
  IF upTo = 0 THEN [fs |-> fs, updatedFiles |-> 0]
  ELSE LET done == LinksUpdated(fs, listed, upTo - 1, oldPath, newPath)
           file == listed[upTo]
           newContent == updateLinksInFile(done.fs[file],
                           [oldPath |-> oldPath, newPath |-> newPath,
                            isMovedToOtherVault |-> FALSE, isMovedFromOtherVault |-> FALSE,
                            sourceVaultName |-> <<>>, destVaultName |-> <<>>])
       IN IF file = newPath \/ newContent = done.fs[file]
          THEN done
          ELSE [fs |-> [done.fs EXCEPT ![file] = newContent],
                updatedFiles |-> done.updatedFiles + 1]

\* updateVaultLinks(vaultPath, oldPath, newPath, sourceVaultName,
\* destVaultName): null is NoPath, a vault name left out is the empty string;
\* the files after the first upTo listed files were handled
RECURSIVE VaultLinksUpdated(_, _, _, _)
VaultLinksUpdated(fs, listed, upTo, o) ==
  IF upTo = 0 THEN [fs |-> fs, updatedFiles |-> 0]
  ELSE LET done == VaultLinksUpdated(fs, listed, upTo - 1, o)
           file == listed[upTo]
           newContent == updateLinksInFile(done.fs[file],
                           [o EXCEPT !.oldPath = IF o.oldPath = NoPath THEN <<>> ELSE o.oldPath])
       IN IF (o.newPath # NoPath /\ file = o.newPath) \/ newContent = done.fs[file]
          THEN done
          ELSE [fs |-> [done.fs EXCEPT ![file] = newContent],
                updatedFiles |-> done.updatedFiles + 1]

updateVaultLinks(fs, oldPath, newPath, sourceVaultName, destVaultName) ==
  LET listed == getAllMarkdownFiles(fs)
      named == sourceVaultName # <<>> /\ destVaultName # <<>>
  IN VaultLinksUpdated(fs, listed, Len(listed),
       [oldPath |-> oldPath, newPath |-> newPath,
        isMovedToOtherVault |-> oldPath # NoPath /\ newPath = NoPath /\ named,
        isMovedFromOtherVault |-> oldPath = NoPath /\ newPath # NoPath /\ named,
        sourceVaultName |-> sourceVaultName, destVaultName |-> destVaultName])

NoMove == [op |-> "none", source |-> <<>>, destination |-> <<>>,
           sourceVaultName |-> <<>>, destVaultName |-> <<>>,
           before |-> [f \in PathSet |-> Absent], outcome |-> "none", updatedFiles |-> 0,
           moves |-> 0, trashName |-> <<>>]

\* .obsidian/search.json when the vault has none
NoSearch == [exists |-> FALSE, queries |-> <<>>, pretty |-> FALSE]

\* no injected fault, and the call record before the first batch call
NoFault == [op |-> "none", at |-> <<>>]

\* what the call before this one was given
NoPrevious == [op |-> "none", tags |-> <<>>, targets |-> <<>>, location |-> "both",
               position |-> "end"]

NoBatchCall == [op |-> "none", oldTag |-> <<>>, newTag |-> <<>>, tags |-> <<>>,
                targets |-> <<>>, location |-> "both", position |-> "end",
                createBackup |-> FALSE, normalize |-> TRUE, batchSize |-> 1,
                fault |-> NoFault, before |-> [f \in PathSet |-> Absent],
                searchBefore |-> NoSearch, outcome |-> "none", error |-> "none",
                successful |-> <<>>, failed |-> <<>>, calls |-> 0,
                previous |-> NoPrevious]

BatchIdle ==
  /\ batchCall = NoBatchCall
  /\ backupDir = [f \in PathSet |-> Absent]
  /\ searchConfig = NoSearch

LinkIdle ==
  /\ files = [f \in PathSet |-> Absent]
  /\ moveCall = NoMove
  /\ trash = {}
  /\ BatchIdle

-----------------------------------------------------------------------------
(* RollbackEditor: tools/edit-note, editNote *)

Editors == {"e1", "e2"}

\* Date.now() values two invocations can see
Clock == {"t1", "t2"}

NoteFile == <<"n", ".", "m", "d">>

ensureMarkdownExtension(filePath) ==
  LET normalized == normalizePath(filePath)
  IN IF normalized = Err THEN Err
     ELSE IF EndsWith(normalized, <<".", "m", "d">>) THEN normalized
     ELSE normalized \o <<".", "m", "d">>

\* lines 134-143: the new content of an append / prepend / replace
NewContent(operation, existingContent, content) ==
  IF operation = "append"
  THEN Trim(existingContent) \o (IF Trim(existingContent) # <<>> THEN <<"\n", "\n">> ELSE <<>>) \o content
  ELSE IF operation = "prepend"
  THEN content \o (IF Trim(existingContent) # <<>> THEN <<"\n", "\n">> ELSE <<>>) \o Trim(existingContent)
  ELSE content

\* errors: whether the value is an McpError, and what its message names
NoError == [mcp |-> FALSE, names |-> {}]
FsError(what) == [mcp |-> FALSE, names |-> {what}]
createNoteNotFoundError == [mcp |-> TRUE, names |-> {"noteNotFound"}]

\* the compound error of the inner handler
RollbackError(error, rollbackError) ==
  [mcp |-> TRUE, names |-> error.names \cup rollbackError.names \cup {"rollbackFailed", "backupPath"}]

\* handleFsError: wraps a file system error into an McpError
handleFsError(error) == [mcp |-> TRUE, names |-> error.names]

\* what a failed fs.writeFile can leave at the destination: nothing written
\* (the open failed), an empty file (truncated, then the write failed), or the
\* first part of the data
WriteFailureLeaves(old, data) ==
  {old, <<>>} \cup (IF Len(data) > 1 THEN {SubSeq(data, 1, 1)} ELSE {})

\* what a failed fs.copyFile can leave at the destination: it untouched, or
\* it removed (Node removes the destination when the copy fails after the
\* destination was opened for writing)
CopyFailureLeaves(old) == {old, Absent}

EdIdle == [pc |-> "idle", operation |-> "none", content |-> <<>>, timestamp |-> "t1",
           orig |-> Absent, newContent |-> <<>>, error |-> NoError, thrown |-> NoError,
           written |-> FALSE, writeFailed |-> FALSE, backedUp |-> FALSE,
           restoreFailed |-> FALSE, lastRestore |-> "none", timer |-> FALSE,
           wroteLast |-> FALSE, overlapped |-> FALSE]

EditIdle ==
  /\ note = Absent
  /\ backup = [t \in Clock |-> Absent]
  /\ ed = [e \in Editors |-> EdIdle]

-----------------------------------------------------------------------------
(* TagBatch: tools/rename-tag renameTag, tools/add-tags addTags and
   tools/remove-tags removeTags, the operations that answer with a report *)

\* updateFrontmatterTags of rename-tag: every tag of the list is normalized,
\* the matching ones are renamed, and the list is de-duplicated and sorted
updateFrontmatterTags(frontmatter, replacements, normalize) ==
  IF ~(HasKey(frontmatter, TagsKey) /\ Get(frontmatter, TagsKey).type = "list")
  THEN [frontmatter |-> frontmatter, changes |-> <<>>]
  ELSE LET tags == Get(frontmatter, TagsKey).items
           norm(tag) == normalizeTag(tag, normalize)
           hit(tag) == ReplacementFor(norm(tag), replacements, normalize)
           updated(tag) == IF hit(tag) # 0
                           THEN UpdatedTag(norm(tag), replacements[hit(tag)], normalize)
                           ELSE norm(tag)
           changed == SelectSeq(tags, LAMBDA tag : hit(tag) # 0)
           updatedTags == [i \in 1..Len(tags) |-> updated(tags[i])]
       IN [frontmatter |-> Set(frontmatter, TagsKey, ListValue(Sort(Dedup(updatedTags)))),
           changes |-> [i \in 1..Len(changed) |->
                          [oldTag |-> norm(changed[i]), newTag |-> updated(changed[i])]]]

\* query.replace(new RegExp(oldRef + "(/\\S*)?", "g"), newRef + "$1") from
\* position i on: oldRef is "tag:" or "#" followed by the old tag
RECURSIVE ReplaceTagRefs(_, _, _, _)
ReplaceTagRefs(query, i, oldRef, newRef) ==
  IF i > Len(query) THEN <<>>
  ELSE IF StartsWith(Slice(query, i - 1), oldRef)
  THEN LET after == i + Len(oldRef)
           group == IF after <= Len(query) /\ query[after] = "/"
                    THEN CHOOSE k \in 1..(Len(query) - after + 1) :
                           /\ \A j \in 1..(k - 1) : query[after + j] \notin WhiteSpace
                           /\ (after + k > Len(query) \/ query[after + k] \in WhiteSpace)
                    ELSE 0
       IN newRef \o SubSeq(query, after, after + group - 1) \o
          ReplaceTagRefs(query, after + group, oldRef, newRef)
  ELSE <<query[i]>> \o ReplaceTagRefs(query, i + 1, oldRef, newRef)

\* updatedQuery of updateSavedSearches after the replacements up to number r
RECURSIVE UpdatedQuery(_, _, _, _)
UpdatedQuery(query, replacements, r, normalize) ==
  IF r = 0 THEN query
  ELSE LET before == UpdatedQuery(query, replacements, r - 1, normalize)
           normalizedOldTag == normalizeTag(replacements[r].oldTag, normalize)
           normalizedNewTag == normalizeTag(replacements[r].newTag, normalize)
           tagQueries == ReplaceTagRefs(before, 1, <<"t", "a", "g", ":">> \o normalizedOldTag,
                                        <<"t", "a", "g", ":">> \o normalizedNewTag)
       IN ReplaceTagRefs(tagQueries, 1, <<"#">> \o normalizedOldTag,
                         <<"#">> \o normalizedNewTag)

\* updateSavedSearches: search.json is its list of queries and whether the
\* file is laid out as JSON.stringify(config, null, 2) writes it
updateSavedSearches(search, replacements, normalize) ==
  IF ~search.exists THEN search
  ELSE LET queries == [i \in 1..Len(search.queries) |->
                         UpdatedQuery(search.queries[i], replacements, Len(replacements),
                                      normalize)]
       IN IF queries = search.queries THEN search
          ELSE [exists |-> TRUE, queries |-> queries, pretty |-> TRUE]

\* a createVaultBackup that logs a failing call and goes on
createVaultBackupSwallows(fs, fault) ==
  [failed |-> FALSE,
   backup |-> [f \in PathSet |-> IF fault.op = "mkdir" \/ f = fault.at THEN Absent ELSE fs[f]]]

\* createVaultBackup: mkdir of .backup, then every listed note copied in
\* turn; the first failing call throws out of it
createVaultBackup(fs, fault) ==
  LET listed == getAllMarkdownFiles(fs)
      stop == IF fault.op = "copyFile"
              THEN CHOOSE k \in 1..Len(listed) : listed[k] = fault.at
              ELSE Len(listed) + 1
  IN [failed |-> fault.op \in {"mkdir", "copyFile"},
      backup |-> [f \in PathSet |->
                    IF fault.op # "mkdir" /\ \E k \in 1..(stop - 1) : listed[k] = f
                    THEN fs[f] ELSE Absent]]

\* the callback processBatch runs for one file, after both updates were
\* computed: what it can leave in the file and what it pushes to successful
\* and to failed
ProcessUpdated(filePath, content, parsed, fm, inline, fault) ==
  LET updatedNote == stringifyNote([parsed EXCEPT !.frontmatter = fm.frontmatter,
                                                  !.content = inline.content])
      report(changes, location) ==
        IF changes = <<>> THEN <<>>
        ELSE <<[filePath |-> filePath,
                oldTags |-> [i \in 1..Len(changes) |-> changes[i].oldTag],
                newTags |-> [i \in 1..Len(changes) |-> changes[i].newTag],
                location |-> location]>>
  IN IF fm.changes = <<>> /\ inline.changes = <<>>
     THEN [writes |-> {content}, successful |-> <<>>, failed |-> <<>>]
     ELSE IF fault = [op |-> "writeFile", at |-> filePath]
     THEN [writes |-> WriteFailureLeaves(content, updatedNote), successful |-> <<>>,
           failed |-> <<[filePath |-> filePath, error |-> "EIO"]>>]
     ELSE [writes |-> {updatedNote},
           successful |-> report(fm.changes, "frontmatter") \o report(inline.changes, "content"),
           failed |-> <<>>]

\* the callback after safeReadFile and parseNote
ProcessParsed(filePath, content, parsed, replacements, normalize, fault) ==
  LET failedWith(error) == [writes |-> {content}, successful |-> <<>>,
                            failed |-> <<[filePath |-> filePath, error |-> error]>>]
  IN IF fault = [op |-> "readFile", at |-> filePath] THEN failedWith("EACCES")
     ELSE IF content = <<>> THEN failedWith("File not found or cannot be read")
     ELSE IF parsed.error # "none" THEN failedWith(parsed.error)
     ELSE ProcessUpdated(filePath, content, parsed,
                         updateFrontmatterTags(parsed.frontmatter, replacements, normalize),
                         updateInlineTags(parsed.content, replacements, normalize), fault)

\* the callback renameTag hands to processBatch, for one file
ProcessFile(filePath, content, replacements, normalize, fault) ==
  ProcessParsed(filePath, content, parseNote(content), replacements, normalize, fault)

\* a processBatch whose callback catches a failure without recording it
processBatchDropsFailed(listed, startIndex, batchSize, processFn) ==
  LET upTo == IF startIndex + batchSize < Len(listed) THEN startIndex + batchSize
              ELSE Len(listed)
      batch == SubSeq(listed, startIndex + 1, upTo)
  IN [successful |-> Flatten([k \in 1..Len(batch) |-> processFn[batch[k]].successful]),
      failed |-> <<>>]

\* processBatch(files, startIndex, batchSize, processFn):
\* files.slice(startIndex, startIndex + batchSize), each file handled by its
\* own callback, processFn[file] being what the callback does for the file;
\* the entries are listed in the order of the files
processBatch(listed, startIndex, batchSize, processFn) ==
  LET upTo == IF startIndex + batchSize < Len(listed) THEN startIndex + batchSize
              ELSE Len(listed)
      batch == SubSeq(listed, startIndex + 1, upTo)
  IN [successful |-> Flatten([k \in 1..Len(batch) |-> processFn[batch[k]].successful]),
      failed |-> Flatten([k \in 1..Len(batch) |-> processFn[batch[k]].failed])]

\* the loop of renameTag over the batches, from index i on
RECURSIVE RenameBatches(_, _, _, _)
RenameBatches(listed, i, batchSize, processFn) ==
  IF i >= Len(listed) THEN [successful |-> <<>>, failed |-> <<>>]
  ELSE LET batch == processBatch(listed, i, batchSize, processFn)
           later == RenameBatches(listed, i + batchSize, batchSize, processFn)
       IN [successful |-> batch.successful \o later.successful,
           failed |-> batch.failed \o later.failed]

\* the vaults a run of per-file handlers can leave: only the handler of the
\* file the fault hits has more than one content to leave
VaultsLeft(writes, fault) ==
  LET only(f) == CHOOSE c \in writes[f] : TRUE
  IN IF fault.at \in PathSet
     THEN {[f \in PathSet |-> IF f = fault.at THEN w ELSE only(f)] : w \in writes[fault.at]}
     ELSE {[f \in PathSet |-> only(f)]}

\* the body of the loop of addTags for one file, after parseNote
AddTagsToParsed(filename, content, parsed, tags, location, normalize, position, fault) ==
  LET added == addTagsToFrontmatter(parsed.frontmatter, tags, normalize)
      inFrontmatter == location # "content" /\ added.frontmatter # parsed.frontmatter
      valid == SelectSeq(tags, validateTag)
      tagString == JoinWith([i \in 1..Len(valid) |->
                               <<"#">> \o (IF normalize THEN normalizeTag(valid[i], TRUE)
                                           ELSE valid[i])], <<" ">>)
      inContent == location # "frontmatter" /\ tagString # <<>>
      newContent == IF ~inContent THEN parsed.content
                    ELSE IF position = "start"
                    THEN tagString \o <<"\n", "\n">> \o Trim(parsed.content)
                    ELSE Trim(parsed.content) \o <<"\n", "\n">> \o tagString
      updatedContent ==
        stringifyNote([parsed EXCEPT !.frontmatter = IF inFrontmatter THEN added.frontmatter
                                                     ELSE parsed.frontmatter,
                                     !.hasFrontmatter = inFrontmatter \/ parsed.hasFrontmatter,
                                     !.content = newContent])
      failedWith(error) == [writes |-> {content}, successful |-> <<>>,
                            failed |-> <<[filePath |-> filename, error |-> error]>>]
  IN IF content = Absent THEN failedWith("File not found")
     ELSE IF fault = [op |-> "readFile", at |-> filename] THEN failedWith("EACCES")
     ELSE IF content = <<>> THEN failedWith("Failed to read file")
     ELSE IF parsed.error # "none" THEN failedWith(parsed.error)
     ELSE IF location # "content" /\ added.error # "none" THEN failedWith(added.error)
     ELSE IF ~inFrontmatter /\ ~inContent
     THEN [writes |-> {content}, successful |-> <<>>, failed |-> <<>>]
     ELSE IF fault = [op |-> "writeFile", at |-> filename]
     THEN [writes |-> WriteFailureLeaves(content, updatedContent), successful |-> <<>>,
           failed |-> <<[filePath |-> filename, error |-> "EIO"]>>]
     ELSE [writes |-> {updatedContent}, successful |-> <<[filePath |-> filename]>>,
           failed |-> <<>>]

\* the body of the loop of addTags for one file
AddTagsToFile(filename, content, tags, location, normalize, position, fault) ==
  AddTagsToParsed(filename, content, parseNote(content), tags, location, normalize,
                  position, fault)

\* the body of the loop of removeTags for one file, after both removals
\* were computed
RemoveTagsUpdated(filename, content, parsed, fm, inline, location, fault) ==
  LET inFrontmatter == location # "content" /\ fm.frontmatter # parsed.frontmatter
      inContent == location # "frontmatter" /\ inline.content # parsed.content
      updatedContent ==
        stringifyNote([parsed EXCEPT !.frontmatter = IF inFrontmatter THEN fm.frontmatter
                                                     ELSE parsed.frontmatter,
                                     !.content = IF inContent THEN inline.content
                                                 ELSE parsed.content])
  IN IF ~inFrontmatter /\ ~inContent
     THEN [writes |-> {content}, successful |-> <<>>, failed |-> <<>>]
     ELSE IF fault = [op |-> "writeFile", at |-> filename]
     THEN [writes |-> WriteFailureLeaves(content, updatedContent), successful |-> <<>>,
           failed |-> <<[filePath |-> filename, error |-> "EIO"]>>]
     ELSE [writes |-> {updatedContent}, successful |-> <<[filePath |-> filename]>>,
           failed |-> <<>>]

\* the body of the loop of removeTags for one file, after parseNote
RemoveTagsFromParsed(filename, content, parsed, tags, location, options, fault) ==
  LET failedWith(error) == [writes |-> {content}, successful |-> <<>>,
                            failed |-> <<[filePath |-> filename, error |-> error]>>]
  IN IF content = Absent THEN failedWith("File not found")
     ELSE IF fault = [op |-> "readFile", at |-> filename] THEN failedWith("EACCES")
     ELSE IF content = <<>> THEN failedWith("Failed to read file")
     ELSE IF parsed.error # "none" THEN failedWith(parsed.error)
     ELSE RemoveTagsUpdated(filename, content, parsed,
                            removeTagsFromFrontmatter(parsed.frontmatter, tags, options),
                            removeInlineTags(parsed.content, tags, options), location, fault)

\* the body of the loop of removeTags for one file
RemoveTagsFromFile(filename, content, tags, location, options, fault) ==
  RemoveTagsFromParsed(filename, content, parseNote(content), tags, location, options, fault)

-----------------------------------------------------------------------------
(* Inputs of the PathGuard specification *)

VaultArgs == { <<"/", "v">>, <<"/", "v", "/">>, <<"/", "d", "/", "/", "v">>,
               <<"/", "d", "/", ".", "/", "v">>, <<".", "/", "v">>, <<"v">>, <<"~", "/", "v">> }

\* segments without a parent-directory traversal segment
SegmentSet == { <<"a">>, <<>>, <<".">>, <<"a", "/", "b">>, <<"a", "\\", "b">>,
                <<"/", "o">>, <<"a", ":", "b">>, <<"a", "/">> }

SegmentLists == UNION {[1..n -> SegmentSet] : n \in 0..MaxSegs}

\* targets a handler validates: the root itself, notes inside it, paths
\* outside it, a sibling whose name extends the root's, a traversal
TargetsOf(root) == { root, root \o <<"/", "a">>, root \o <<"/", "l", "/", "a">>,
                     <<"/", "o", "/", "x">>, root \o <<"2", "/", "x">>,
                     root \o <<"/", ".", ".", "/", "o">>, root \o <<"/", "a", ":", "b">> }

NoCall == [op |-> "none", segments |-> <<>>, target |-> <<>>,
           rpTarget |-> [kind |-> "same", to |-> <<>>],
           rpParent |-> [kind |-> "same", to |-> <<>>],
           result |-> <<>>, outcome |-> "none"]

PathIdle ==
  /\ vaultPath = VaultRoot(<<"/", "v">>)
  /\ pathCall = NoCall

PathInit ==
  /\ vaultPath \in {VaultRoot(a) : a \in VaultArgs}
  /\ pathCall = NoCall
  /\ EditIdle
  /\ TagIdle
  /\ LinkIdle

\* safeJoinPath(vaultPath, ...segments)
SafeJoinPath ==
  /\ pathCall.op = "none"
  /\ \E segs \in SegmentLists, rt \in RealpathAnswers, rp \in RealpathAnswers :
    /\ pathCall' = [op |-> "safeJoinPath", segments |-> segs, target |-> <<>>,
                    rpTarget |-> rt, rpParent |-> rp,
                    result |-> safeJoinPath(vaultPath, segs, rt, rp),
                    outcome |-> "returned"]
    /\ UNCHANGED <<vaultPath, editVars, tagVars, linkVars>>

\* await checkPathSafety(vaultPath, target)
CheckPathSafety ==
  /\ pathCall.op = "none"
  /\ \E t \in TargetsOf(vaultPath), rt \in RealpathAnswers, rp \in RealpathAnswers :
    /\ pathCall' = [op |-> "checkPathSafety", segments |-> <<>>, target |-> t,
                    rpTarget |-> rt, rpParent |-> rp, result |-> <<>>,
                    outcome |-> checkPathSafety(vaultPath, t, rt, rp)]
    /\ UNCHANGED <<vaultPath, editVars, tagVars, linkVars>>

\* a tool handler's call validateVaultPath(vaultPath, fullPath)
ValidateVaultPath ==
  /\ pathCall.op = "none"
  /\ \E t \in TargetsOf(vaultPath), rt \in RealpathAnswers, rp \in RealpathAnswers :
    /\ pathCall' = [op |-> "validateVaultPath", segments |-> <<>>, target |-> t,
                    rpTarget |-> rt, rpParent |-> rp, result |-> <<>>,
                    outcome |-> validateVaultPath(vaultPath, t, rt, rp)]
    /\ UNCHANGED <<vaultPath, editVars, tagVars, linkVars>>

\* the handler's first file read or write, reached when validation returned
HandlerFileAccess ==
  /\ pathCall.op = "validateVaultPath"
  /\ pathCall.outcome = "returned"
  /\ pathCall' = [pathCall EXCEPT !.outcome = "fileAccess"]
  /\ UNCHANGED <<vaultPath, editVars, tagVars, linkVars>>

\* the call is over and the server waits for the next request
PathReturn ==
  /\ pathCall.op # "none"
  /\ pathCall' = NoCall
  /\ UNCHANGED <<vaultPath, editVars, tagVars, linkVars>>

\* most vault roots handed to checkPathOverlap
MaxRoots == 2

\* vault roots: siblings that share a prefix, a trailing separator, a
\* directory below a root, one whose name begins with two dots, a root
\* spelled with "." and "..", the file system root
OverlapRoots == { <<"/", "a", "/", "v">>,
                  <<"/", "a", "/", "v", "2">>,
                  <<"/", "a", "/", "v", "/">>,
                  <<"/", "a", "/", "v", "/", "s">>,
                  <<"/", "a", "/", "v", "/", ".", ".", "x">>,
                  <<"/", "a", "/", ".", "/", "v">>,
                  <<"/", "a", "/", "v", "2", "/", ".", ".", "/", "b">>,
                  <<"/", "a">>,
                  <<"/", "b">>,
                  <<"/">> }

RootLists == UNION {[1..n -> OverlapRoots] : n \in 1..MaxRoots}

\* checkPathOverlap(paths)
CheckPathOverlap ==
  /\ pathCall.op = "none"
  /\ \E paths \in RootLists :
       pathCall' = [NoCall EXCEPT !.op = "checkPathOverlap",
                                  !.segments = paths,
                                  !.outcome = IF checkPathOverlap(paths) = "ok"
                                              THEN "returned" ELSE "threw"]
  /\ UNCHANGED <<vaultPath, editVars, tagVars, linkVars>>

\* paths handed to normalizePath: a colon in the last component and in a
\* directory, a drive, backslashes, a relative path
NormalizeArgs == { <<"/", "p", "/", "f", ":", "n">>,
                   <<"/", "p", ":", "q", "/", "f">>,
                   <<"/", "p", "/", "f">>,
                   <<"C", ":">>,
                   <<"C", ":", "/", "x">>,
                   <<"p", "\\", "f">>,
                   <<".", "/", "f">>,
                   <<"/", "p", "/", "f", "?">> }

\* normalizePath(inputPath)
NormalizePath ==
  /\ pathCall.op = "none"
  /\ \E inputPath \in NormalizeArgs :
       pathCall' = [NoCall EXCEPT !.op = "normalizePath",
                                  !.target = inputPath,
                                  !.result = normalizePath(inputPath),
                                  !.outcome = IF normalizePath(inputPath) = Err
                                              THEN "threw" ELSE "returned"]
  /\ UNCHANGED <<vaultPath, editVars, tagVars, linkVars>>

PathNext ==
  \/ SafeJoinPath
  \/ CheckPathSafety
  \/ ValidateVaultPath
  \/ HandlerFileAccess
  \/ CheckPathOverlap
  \/ NormalizePath
  \/ PathReturn

SpecPath == PathInit /\ [][PathNext]_vars

-----------------------------------------------------------------------------
(* The editNote specification: one invocation, every file system call of it
   may fail *)

InitialNotes == {Absent, <<>>, <<"x">>, <<"x", "\n">>}

\* the content argument: absent for delete, at least one character otherwise
EditContents == {<<>>, <<"y">>, <<"y", "z">>}

SameAnswer == [kind |-> "same", to |-> <<>>]

EditInit ==
  /\ PathIdle
  /\ TagIdle
  /\ LinkIdle
  /\ note \in InitialNotes
  /\ backup = [t \in Clock |-> Absent]
  /\ ed = [e \in Editors |-> EdIdle]

\* lines 76-86: the path is built and validated, the backup path is chosen
\* the invocation has been called and has neither returned nor thrown
InFlight(e) == ed[e].pc \notin {"idle", "done", "thrown"}

EditStartWith(e, operations, contents) ==
  /\ ed[e].pc = "idle"
  /\ \E operation \in operations, content \in contents, ts \in Clock :
       /\ (operation = "delete") <=> (content = <<>>)
       /\ LET sanitizedFilename == ensureMarkdownExtension(NoteFile)
              fullPath == PosixJoin(<<vaultPath, sanitizedFilename>>)
              validated == validateVaultPath(vaultPath, fullPath, SameAnswer, SameAnswer)
          IN ed' = [ed EXCEPT ![e] =
                     [EdIdle EXCEPT !.pc = IF validated = "threw" THEN "thrown" ELSE "backupCheck",
                                    !.operation = operation, !.content = content,
                                    !.timestamp = ts, !.orig = note,
                                    !.overlapped = \E x \in Editors \ {e} : InFlight(x)]]
  /\ UNCHANGED <<note, backup, pathVars, tagVars, linkVars>>

EditStart(e) == EditStartWith(e, {"append", "prepend", "replace", "delete"}, EditContents)

\* the editor records after e has changed the note file: e is the one whose
\* write was performed last
Wrote(e, pc) ==
  [x \in Editors |-> IF x = e THEN [ed[e] EXCEPT !.pc = pc, !.written = TRUE, !.wroteLast = TRUE]
                      ELSE [ed[x] EXCEPT !.wroteLast = FALSE]]

\* (mutant) the backup is never taken
EditBackupCheckSkipsBackup(e) ==
  /\ ed[e].pc = "backupCheck"
  /\ ed' = [ed EXCEPT ![e].pc = "switch"]
  /\ UNCHANGED <<note, backup, pathVars, tagVars, linkVars>>

\* line 90: operation !== 'delete' && await fileExists(fullPath)
EditBackupCheck(e) ==
  /\ ed[e].pc = "backupCheck"
  /\ ed' = [ed EXCEPT ![e].pc =
              IF ed[e].operation # "delete" /\ note # Absent THEN "copyBackup" ELSE "switch"]
  /\ UNCHANGED <<note, backup, pathVars, tagVars, linkVars>>

\* line 91: await fs.copyFile(fullPath, backupPath)
EditCopyBackup(e) ==
  /\ ed[e].pc = "copyBackup"
  /\ \E ok \in BOOLEAN :
       IF ok /\ note # Absent
       THEN /\ backup' = [backup EXCEPT ![ed[e].timestamp] = note]
            /\ ed' = [ed EXCEPT ![e].pc = "switch", ![e].backedUp = TRUE]
       ELSE /\ \E left \in CopyFailureLeaves(backup[ed[e].timestamp]) :
                 backup' = [backup EXCEPT ![ed[e].timestamp] = left]
            /\ ed' = [ed EXCEPT ![e].pc = "outerCatch", ![e].error = FsError("copyBackup")]
  /\ UNCHANGED <<note, pathVars, tagVars, linkVars>>

\* lines 96 and 126: if (!await fileExists(fullPath)) throw createNoteNotFoundError
EditExists(e) ==
  /\ ed[e].pc = "switch"
  /\ ed' = [ed EXCEPT ![e] =
              IF note = Absent
              THEN [ed[e] EXCEPT !.pc = "outerCatch", !.error = createNoteNotFoundError]
              ELSE [ed[e] EXCEPT !.pc = IF ed[e].operation = "delete" THEN "deleteCopy" ELSE "read"]]
  /\ UNCHANGED <<note, backup, pathVars, tagVars, linkVars>>

\* lines 132-143: the note is read and the new content is prepared
EditRead(e) ==
  /\ ed[e].pc = "read"
  /\ \E ok \in BOOLEAN :
       ed' = [ed EXCEPT ![e] =
                IF ok /\ note # Absent
                THEN [ed[e] EXCEPT !.pc = "write",
                                   !.newContent = NewContent(ed[e].operation, note, ed[e].content)]
                ELSE [ed[e] EXCEPT !.pc = "innerCatch", !.error = FsError("read")]]
  /\ UNCHANGED <<note, backup, pathVars, tagVars, linkVars>>

\* line 146: await fs.writeFile(fullPath, newContent)
EditWrite(e) ==
  /\ ed[e].pc = "write"
  /\ \E ok \in BOOLEAN :
       IF ok
       THEN /\ note' = ed[e].newContent
            /\ ed' = Wrote(e, "unlinkBackup")
       ELSE /\ note' \in WriteFailureLeaves(note, ed[e].newContent)
            /\ ed' = [ed EXCEPT ![e].pc = "innerCatch", ![e].writeFailed = TRUE,
                                ![e].error = FsError("write")]
  /\ UNCHANGED <<backup, pathVars, tagVars, linkVars>>

\* line 149: await fs.unlink(backupPath)
EditUnlinkBackup(e) ==
  /\ ed[e].pc = "unlinkBackup"
  /\ \E ok \in BOOLEAN :
       IF ok /\ backup[ed[e].timestamp] # Absent
       THEN /\ backup' = [backup EXCEPT ![ed[e].timestamp] = Absent]
            /\ ed' = [ed EXCEPT ![e].pc = "done"]
       ELSE /\ backup' = backup
            /\ ed' = [ed EXCEPT ![e].pc = "innerCatch", ![e].error = FsError("unlinkBackup")]
  /\ UNCHANGED <<note, pathVars, tagVars, linkVars>>

\* line 159: if (await fileExists(backupPath)), else line 173: throw error
EditInnerCatch(e) ==
  /\ ed[e].pc = "innerCatch"
  /\ ed' = [ed EXCEPT ![e].pc =
              IF backup[ed[e].timestamp] # Absent THEN "innerRestore" ELSE "outerCatch"]
  /\ UNCHANGED <<note, backup, pathVars, tagVars, linkVars>>

\* (mutant) the backup is unlinked whether or not the restoring copy worked
EditInnerRestoreAlwaysUnlinks(e) ==
  /\ ed[e].pc = "innerRestore"
  /\ \E ok \in BOOLEAN :
       IF ok /\ backup[ed[e].timestamp] # Absent
       THEN /\ note' = backup[ed[e].timestamp]
            /\ ed' = [ed EXCEPT ![e].pc = "innerUnlink", ![e].lastRestore = "ok"]
       ELSE /\ note' \in CopyFailureLeaves(note)
            /\ ed' = [ed EXCEPT ![e].pc = "innerUnlink", ![e].restoreFailed = TRUE,
                                ![e].lastRestore = "failed",
                                ![e].error = RollbackError(ed[e].error, FsError("restoreCopy"))]
  /\ UNCHANGED <<backup, pathVars, tagVars, linkVars>>

\* line 161: await fs.copyFile(backupPath, fullPath); a failure is thrown as
\* the compound error of lines 167-170
EditInnerRestore(e) ==
  /\ ed[e].pc = "innerRestore"
  /\ \E ok \in BOOLEAN :
       IF ok /\ backup[ed[e].timestamp] # Absent
       THEN /\ note' = backup[ed[e].timestamp]
            /\ ed' = [ed EXCEPT ![e].pc = "innerUnlink", ![e].lastRestore = "ok"]
       ELSE /\ note' \in CopyFailureLeaves(note)
            /\ ed' = [ed EXCEPT ![e].pc = "outerCatch", ![e].restoreFailed = TRUE,
                                ![e].lastRestore = "failed",
                                ![e].error = RollbackError(ed[e].error, FsError("restoreCopy"))]
  /\ UNCHANGED <<backup, pathVars, tagVars, linkVars>>

\* line 162: await fs.unlink(backupPath), then line 173: throw error
EditInnerUnlink(e) ==
  /\ ed[e].pc = "innerUnlink"
  /\ \E ok \in BOOLEAN :
       IF ok /\ backup[ed[e].timestamp] # Absent
       THEN /\ backup' = [backup EXCEPT ![ed[e].timestamp] = Absent]
            /\ ed' = [ed EXCEPT ![e].pc = "outerCatch"]
       ELSE /\ backup' = backup
            /\ ed' = [ed EXCEPT ![e].pc = "outerCatch",
                                ![e].error = RollbackError(ed[e].error, FsError("restoreUnlink"))]
  /\ UNCHANGED <<note, pathVars, tagVars, linkVars>>

\* line 100: await fs.copyFile(fullPath, backupPath) of the delete operation
EditDeleteCopy(e) ==
  /\ ed[e].pc = "deleteCopy"
  /\ \E ok \in BOOLEAN :
       IF ok /\ note # Absent
       THEN /\ backup' = [backup EXCEPT ![ed[e].timestamp] = note]
            /\ ed' = [ed EXCEPT ![e].pc = "deleteUnlink", ![e].backedUp = TRUE]
       ELSE /\ \E left \in CopyFailureLeaves(backup[ed[e].timestamp]) :
                 backup' = [backup EXCEPT ![ed[e].timestamp] = left]
            /\ ed' = [ed EXCEPT ![e].pc = "outerCatch", ![e].error = FsError("copyBackup")]
  /\ UNCHANGED <<note, pathVars, tagVars, linkVars>>

\* lines 101-119: await fs.unlink(fullPath); the purge of the backup is
\* scheduled and the result is returned
EditDeleteUnlink(e) ==
  /\ ed[e].pc = "deleteUnlink"
  /\ \E ok \in BOOLEAN :
       IF ok /\ note # Absent
       THEN /\ note' = Absent
            /\ ed' = [Wrote(e, "done") EXCEPT ![e].timer = TRUE]
       ELSE /\ note' = note
            /\ ed' = [ed EXCEPT ![e].pc = "outerCatch", ![e].writeFailed = TRUE,
                                ![e].error = FsError("unlink")]
  /\ UNCHANGED <<backup, pathVars, tagVars, linkVars>>

\* lines 105-112: the timer fires and the backup of a deleted note is removed
EditPurgeBackup(e) ==
  /\ ed[e].pc = "done"
  /\ ed[e].timer
  /\ \E ok \in BOOLEAN :
       backup' = IF ok THEN [backup EXCEPT ![ed[e].timestamp] = Absent] ELSE backup
  /\ ed' = [ed EXCEPT ![e].timer = FALSE]
  /\ UNCHANGED <<note, pathVars, tagVars, linkVars>>

\* line 187: if (await fileExists(backupPath))
EditOuterCatch(e) ==
  /\ ed[e].pc = "outerCatch"
  /\ ed' = [ed EXCEPT ![e].pc =
              IF backup[ed[e].timestamp] # Absent THEN "outerRestore" ELSE "throw"]
  /\ UNCHANGED <<note, backup, pathVars, tagVars, linkVars>>

\* line 189: await fs.copyFile(backupPath, fullPath); a failure is logged
EditOuterRestore(e) ==
  /\ ed[e].pc = "outerRestore"
  /\ \E ok \in BOOLEAN :
       IF ok /\ backup[ed[e].timestamp] # Absent
       THEN /\ note' = backup[ed[e].timestamp]
            /\ ed' = [ed EXCEPT ![e].pc = "outerUnlink", ![e].lastRestore = "ok"]
       ELSE /\ note' \in CopyFailureLeaves(note)
            /\ ed' = [ed EXCEPT ![e].pc = "throw", ![e].restoreFailed = TRUE,
                                ![e].lastRestore = "failed"]
  /\ UNCHANGED <<backup, pathVars, tagVars, linkVars>>

\* line 190: await fs.unlink(backupPath); a failure is logged
EditOuterUnlink(e) ==
  /\ ed[e].pc = "outerUnlink"
  /\ \E ok \in BOOLEAN :
       backup' = IF ok THEN [backup EXCEPT ![ed[e].timestamp] = Absent] ELSE backup
  /\ ed' = [ed EXCEPT ![e].pc = "throw"]
  /\ UNCHANGED <<note, pathVars, tagVars, linkVars>>

\* lines 197-200: the error is delivered to the caller
EditThrow(e) ==
  /\ ed[e].pc = "throw"
  /\ ed' = [ed EXCEPT ![e].pc = "thrown",
                      ![e].thrown = IF ed[e].error.mcp THEN ed[e].error
                                    ELSE handleFsError(ed[e].error)]
  /\ UNCHANGED <<note, backup, pathVars, tagVars, linkVars>>

EditStep(e) ==
  \/ EditStart(e) \/ EditBackupCheck(e) \/ EditCopyBackup(e) \/ EditExists(e)
  \/ EditRead(e) \/ EditWrite(e) \/ EditUnlinkBackup(e)
  \/ EditInnerCatch(e) \/ EditInnerRestore(e) \/ EditInnerUnlink(e)
  \/ EditDeleteCopy(e) \/ EditDeleteUnlink(e) \/ EditPurgeBackup(e)
  \/ EditOuterCatch(e) \/ EditOuterRestore(e) \/ EditOuterUnlink(e) \/ EditThrow(e)

EditNext == EditStep("e1")

SpecEdit == EditInit /\ [][EditNext]_vars

------------------------------------------------------------------------------
(* The overlapping-edit specification: two editNote invocations on one note
   run at once, their awaited steps interleaved in any order *)

PairOperations == {"append", "delete"}
PairContents == {<<>>, <<"y">>}

PairInit ==
  /\ PathIdle
  /\ TagIdle
  /\ LinkIdle
  /\ note = <<"x">>
  /\ backup = [t \in Clock |-> Absent]
  /\ ed = [e \in Editors |-> EdIdle]

PairStep(e) ==
  \/ EditStartWith(e, PairOperations, PairContents) \/ EditBackupCheck(e)
  \/ EditCopyBackup(e) \/ EditExists(e)
  \/ EditRead(e) \/ EditWrite(e) \/ EditUnlinkBackup(e)
  \/ EditInnerCatch(e) \/ EditInnerRestore(e) \/ EditInnerUnlink(e)
  \/ EditDeleteCopy(e) \/ EditDeleteUnlink(e) \/ EditPurgeBackup(e)
  \/ EditOuterCatch(e) \/ EditOuterRestore(e) \/ EditOuterUnlink(e) \/ EditThrow(e)

\* e1 is the invocation that was called first
PairNext ==
  \/ PairStep("e1")
  \/ ed["e1"].operation # "none" /\ PairStep("e2")

SpecPair == PairInit /\ [][PairNext]_vars

-----------------------------------------------------------------------------
(* The tag utilities specification: each call is made on a frontmatter or a
   body drawn from the inputs below *)

\* most lines of a note body
MaxBodyLines == 3

TagA == <<"a">>
TagAB == <<"a", "/", "b">>
TagC == <<"c">>
TagZ == <<"z">>

TagLists == { <<TagA, TagAB, TagC>>, <<TagAB, TagA>>, <<TagC>>,
              <<<<"a", "B">>, <<"a", "/", "b", "/", "c">>>>, <<>> }

\* frontmatters: with a tag list, with a key before it, and without tags
TagFrontmatters ==
  {<<[key |-> TagsKey, val |-> ListValue(tags)]>> : tags \in TagLists}
  \cup {<<[key |-> <<"k">>, val |-> ScalarValue(<<"x">>)],
          [key |-> TagsKey, val |-> ListValue(tags)]>> : tags \in TagLists}
  \cup {<<>>, <<[key |-> <<"k">>, val |-> ScalarValue(<<"x">>)]>>}

TagsToRemove == { <<TagA>>, <<TagAB>>, <<TagC, TagA>>, <<<<"#", "a">>>>, <<>> }

TagPatterns == { <<>>, << <<"a", "/", "*">> >> }

TagOptions == [normalize : BOOLEAN, preserveChildren : BOOLEAN, patterns : TagPatterns]

TagReplacements == { <<[oldTag |-> TagA, newTag |-> TagZ]>>,
                     <<[oldTag |-> TagAB, newTag |-> TagC]>> }

\* lines of a body: live tags, a blank line, a comment on one line, the
\* opening and the closing line of a longer comment, a fence
BodyLines == { <<"#", "a">>,
               <<"x", " ", "#", "a", "/", "b">>,
               <<"#", "c", " ", "#", "a">>,
               <<>>,
               <<"<", "!", "-", "-", " ", "#", "a", " ", "-", "-", ">">>,
               <<"<", "!", "-", "-">>,
               <<"#", "a", " ", "-", "-", ">">>,
               FenceMarker }

Bodies == {JoinWith(ls, <<"\n">>) : ls \in UNION {[1..n -> BodyLines] : n \in 1..MaxBodyLines}}

\* frontmatter blocks as written in a file
YamlTexts == { <<"t", "a", "g", "s", ":", "\n", " ", " ", "-", " ", "a">>,
               <<"t", "a", "g", "s", ":", " ", "[", "a", ",", " ", "b", "]">>,
               <<"t", "a", "g", "s", ":", "\n", "-", " ", "a">>,
               <<"k", ":", " ", "x">>,
               <<"k", ":", " ", "x", "\n", "t", "a", "g", "s", ":", " ", "[", "]">>,
               <<"k", ":">>,
               <<>>,
               <<"-", " ", "a">> }

\* what follows the closing delimiter
NoteBodies == { <<>>, <<"\n">>, <<"b">>, <<"b", "\n">>, <<"\n", "b">>, <<"\n", "b", "\n">>,
                <<"\n", "\n", "b">>, <<"\n", "b", " ", "#", "a">>, <<" ", "b">> }

NoteTexts == {FrontmatterOpen \o y \o FrontmatterClose \o b : y \in YamlTexts, b \in NoteBodies}
             \cup NoteBodies

TagInit ==
  /\ PathIdle
  /\ EditIdle
  /\ LinkIdle
  /\ tagCall = NoTagCall

RemoveTagsFromFrontmatter ==
  /\ tagCall.op = "none"
  /\ \E frontmatter \in TagFrontmatters, tagsToRemove \in TagsToRemove, options \in TagOptions :
       tagCall' = [NoTagCall EXCEPT !.op = "removeTagsFromFrontmatter",
                                    !.frontmatter = frontmatter,
                                    !.tags = tagsToRemove,
                                    !.options = options,
                                    !.out = removeTagsFromFrontmatter(frontmatter, tagsToRemove,
                                                                      options)]
  /\ UNCHANGED <<pathVars, editVars, linkVars>>

RemoveInlineTags ==
  /\ tagCall.op = "none"
  /\ \E content \in Bodies, tagsToRemove \in TagsToRemove, options \in TagOptions :
       tagCall' = [NoTagCall EXCEPT !.op = "removeInlineTags",
                                    !.content = content,
                                    !.tags = tagsToRemove,
                                    !.options = options,
                                    !.out = removeInlineTags(content, tagsToRemove, options)]
  /\ UNCHANGED <<pathVars, editVars, linkVars>>

\* bodies for a rename: a tag that only begins like the old one, a
\* hyphenated tag as normalizeTag writes it, an upper-case spelling, a
\* descendant with a hyphenated part
RenameBodies == { <<"#", "a", "b">>,
                  <<"#", "a", "-", "b">>,
                  <<"#", "A", " ", "#", "a", "/", "B">>,
                  <<"#", "a", "/", "b", "-", "c", " ", "x">> }

\* tags handed to normalizeTag: camel case, runs of capitals, digits, a
\* leading "#", a hierarchy, and two strings validateTag turns down
NormalizeInputs == { <<"a">>, <<"a", "B">>, <<"a", "B", "C">>, <<"A", "B", "c">>,
                     <<"a", "b", "c">>, <<"a", "1", "B">>, <<"#", "a", "B">>,
                     <<"a", "/", "b", "C">>, <<"A", "/", "B">>, <<"a", "B", "c", "A">>,
                     <<"a", "-", "B">>, <<"#", "#", "a">> }

\* normalizeTag applied to a tag, and to its own result
NormalizeTag ==
  /\ tagCall.op = "none"
  /\ \E tag \in NormalizeInputs, normalize \in BOOLEAN :
       tagCall' = [NoTagCall EXCEPT !.op = "normalizeTag",
                                    !.tags = <<tag>>,
                                    !.options = [DefaultOptions EXCEPT !.normalize = normalize],
                                    !.out = [once |-> normalizeTag(tag, normalize),
                                             twice |-> normalizeTag(normalizeTag(tag, normalize),
                                                                    normalize)]]
  /\ UNCHANGED <<pathVars, editVars, linkVars>>

UpdateFrontmatterTags ==
  /\ tagCall.op = "none"
  /\ \E frontmatter \in TagFrontmatters, replacements \in TagReplacements,
        normalize \in BOOLEAN :
       tagCall' = [NoTagCall EXCEPT !.op = "updateFrontmatterTags",
                                    !.frontmatter = frontmatter,
                                    !.replacements = replacements,
                                    !.options = [DefaultOptions EXCEPT !.normalize = normalize],
                                    !.out = updateFrontmatterTags(frontmatter, replacements,
                                                                  normalize)]
  /\ UNCHANGED <<pathVars, editVars, linkVars>>

UpdateInlineTags ==
  /\ tagCall.op = "none"
  /\ \E content \in Bodies \cup RenameBodies, replacements \in TagReplacements, normalize \in BOOLEAN :
       tagCall' = [NoTagCall EXCEPT !.op = "updateInlineTags",
                                    !.content = content,
                                    !.replacements = replacements,
                                    !.options = [DefaultOptions EXCEPT !.normalize = normalize],
                                    !.out = updateInlineTags(content, replacements, normalize)]
  /\ UNCHANGED <<pathVars, editVars, linkVars>>

\* stringifyNote(parseNote(content)), the parsed note untouched in between
ParseAndStringify ==
  /\ tagCall.op = "none"
  /\ \E content \in NoteTexts :
       LET parsed == parseNote(content)
       IN tagCall' = [NoTagCall EXCEPT !.op = "stringifyNote",
                                       !.content = content,
                                       !.frontmatter = parsed.frontmatter,
                                       !.out = [error |-> parsed.error,
                                                hasFrontmatter |-> parsed.hasFrontmatter,
                                                text |-> IF parsed.error = "none"
                                                         THEN stringifyNote(parsed)
                                                         ELSE Err]]
  /\ UNCHANGED <<pathVars, editVars, linkVars>>

TagReturn ==
  /\ tagCall.op # "none"
  /\ tagCall' = NoTagCall
  /\ UNCHANGED <<pathVars, editVars, linkVars>>

TagNext ==
  \/ NormalizeTag
  \/ RemoveTagsFromFrontmatter
  \/ UpdateFrontmatterTags
  \/ RemoveInlineTags
  \/ UpdateInlineTags
  \/ ParseAndStringify
  \/ TagReturn

SpecTags == TagInit /\ [][TagNext]_vars

-----------------------------------------------------------------------------
(* The move-note specification: notes that link to each other are renamed *)

\* most moveNote calls in one behaviour
MaxMoves == 2

LinkFragments == { <<"[", "[", "b", "]", "]">>,
                   <<"[", "[", "b", "|", "x", "]", "]">>,
                   <<"[", "x", "]", "(", "b", ".", "m", "d", ")">>,
                   <<"[", "[", "b", "+", "]", "]">>,
                   <<"[", "[", "b", "b", "]", "]">>,
                   <<"[", "[", "c", "]", "]">> }

LinkTexts == LinkFragments \cup {f \o <<" ">> \o g : f, g \in LinkFragments}

LinkInit ==
  /\ PathIdle
  /\ EditIdle
  /\ TagIdle
  /\ \E reader \in LinkTexts, other \in {Absent} \cup LinkFragments,
        plain \in BOOLEAN :
       files = [f \in PathSet |->
                  IF f = <<"n">> \o MdExt THEN reader
                  ELSE IF f = <<"b", "b">> \o MdExt THEN other
                  ELSE IF f = <<"b">> \o MdExt /\ plain THEN <<"x">>
                  ELSE IF f = <<"b", "+">> \o MdExt /\ ~plain THEN <<"x">>
                  ELSE Absent]
  /\ moveCall = NoMove
  /\ trash = {}
  /\ BatchIdle

\* moveNote(args, vaultPath): the existence checks, fs.rename, then
\* updateVaultLinks; failAt = k makes reading the k-th listed file fail
MoveNote ==
  /\ moveCall.op = "none"
  /\ moveCall.moves < MaxMoves
  /\ \E source \in PathSet, destination \in PathSet, failAt \in 0..Len(NotePaths) :
       LET called == [NoMove EXCEPT !.op = "moveNote", !.source = source,
                                    !.destination = destination, !.before = files,
                                    !.moves = moveCall.moves + 1]
           renamed == [files EXCEPT ![destination] = files[source], ![source] = Absent]
           listed == getAllMarkdownFiles(renamed)
           upTo == IF failAt = 0 THEN Len(listed) ELSE failAt - 1
           done == LinksUpdated(renamed, listed, upTo, source, destination)
       IN IF files[source] = Absent
          THEN /\ failAt = 0
               /\ moveCall' = [called EXCEPT !.outcome = "NoteNotFound"]
               /\ UNCHANGED files
          ELSE IF files[destination] # Absent
          THEN /\ failAt = 0
               /\ moveCall' = [called EXCEPT !.outcome = "NoteExists"]
               /\ UNCHANGED files
          ELSE /\ IF failAt = 0 THEN TRUE
                  ELSE failAt <= Len(listed) /\ listed[failAt] # destination
               /\ files' = done.fs
               /\ moveCall' = IF failAt = 0
                              THEN [called EXCEPT !.outcome = "moved",
                                                  !.updatedFiles = done.updatedFiles]
                              ELSE [called EXCEPT !.outcome = "FsError"]
  /\ UNCHANGED <<trash, batchVars, pathVars, editVars, tagVars>>

MoveReturn ==
  /\ moveCall.op # "none"
  /\ moveCall' = [NoMove EXCEPT !.moves = moveCall.moves]
  /\ UNCHANGED <<files, trash, batchVars, pathVars, editVars, tagVars>>

\* most deleteNote calls in one behaviour
MaxDeletes == 1

\* the reason argument of deleteNote: absent or given
DeleteReasons == {<<>>, <<"r">>}

\* new Date().toISOString() with ":" and "." replaced, as the clock reads
Timestamp(ts) == <<ts>>

\* moveToTrash: the name of the file written to .trash
TrashName(notePath, ts) == Basename(notePath, MdExt) \o <<"_">> \o Timestamp(ts) \o MdExt

\* moveToTrash: contentWithMetadata
ContentWithMetadata(notePath, ts, reason, content) ==
  <<"-", "-", "-", "\n">>
  \o <<"t", "r", "a", "s", "h", "_", "m", "e", "t", "a", "d", "a", "t", "a", ":", "\n">>
  \o <<" ", " ", "o", "r", "i", "g", "i", "n", "a", "l", "_", "p", "a", "t", "h", ":", " ">>
  \o notePath \o <<"\n">>
  \o <<" ", " ", "d", "e", "l", "e", "t", "e", "d", "_", "a", "t", ":", " ">> \o Timestamp(ts)
  \o (IF reason # <<>>
      THEN <<"\n", " ", " ", "r", "e", "a", "s", "o", "n", ":", " ">> \o reason
      ELSE <<>>)
  \o <<"\n", "-", "-", "-", "\n", "\n">> \o content

\* fs.writeFile(trashFilePath, ...): a file of that name is replaced
WriteTrash(name, content) == {t \in trash : t.name # name} \cup {[name |-> name, content |-> content]}

\* deleteNote(vaultPath, notePath, options): the existence check, then
\* updateVaultLinks(vaultPath, notePath, null) over every listed note, then
\* fs.unlink or moveToTrash; fails names the file system call that fails
DeleteNote ==
  /\ moveCall.op = "none"
  /\ moveCall.moves < MaxDeletes
  /\ \E notePath \in PathSet, permanent \in BOOLEAN, reason \in DeleteReasons, ts \in Clock,
        fails \in {"none", "writeFile", "unlink"} :
       LET called == [NoMove EXCEPT !.op = "deleteNote", !.source = notePath,
                                    !.before = files, !.moves = moveCall.moves + 1]
           listed == getAllMarkdownFiles(files)
           done == LinksUpdated(files, listed, Len(listed), notePath, NoPath)
           trashName == TrashName(notePath, ts)
           artifact == ContentWithMetadata(notePath, ts, reason, done.fs[notePath])
       IN IF files[notePath] = Absent
          THEN /\ fails = "none" /\ ~permanent /\ reason = <<>> /\ ts = "t1"
               /\ moveCall' = [called EXCEPT !.outcome = "NoteNotFound"]
               /\ UNCHANGED <<files, trash>>
          ELSE IF permanent
          THEN /\ fails # "writeFile" /\ reason = <<>> /\ ts = "t1"
               /\ files' = IF fails = "unlink" THEN done.fs
                           ELSE [done.fs EXCEPT ![notePath] = Absent]
               /\ moveCall' = IF fails = "unlink"
                              THEN [called EXCEPT !.outcome = "FsError"]
                              ELSE [called EXCEPT !.outcome = "deleted",
                                                  !.updatedFiles = done.updatedFiles]
               /\ UNCHANGED trash
          ELSE /\ trash' \in IF fails = "writeFile"
                             THEN {trash} \cup {WriteTrash(trashName, c) :
                                                  c \in WriteFailureLeaves(Absent, artifact) \ {Absent}}
                             ELSE {WriteTrash(trashName, artifact)}
               /\ files' = IF fails = "none" THEN [done.fs EXCEPT ![notePath] = Absent]
                           ELSE done.fs
               /\ moveCall' = IF fails = "none"
                              THEN [called EXCEPT !.outcome = "trashed",
                                                  !.updatedFiles = done.updatedFiles,
                                                  !.trashName = trashName]
                              ELSE [called EXCEPT !.outcome = "FsError"]
  /\ UNCHANGED <<batchVars, pathVars, editVars, tagVars>>

LinkNext ==
  \/ MoveNote
  \/ MoveReturn

SpecLinks == LinkInit /\ [][LinkNext]_vars

DeleteNext ==
  \/ DeleteNote
  \/ MoveReturn

SpecDelete == LinkInit /\ [][DeleteNext]_vars

-----------------------------------------------------------------------------
(* The tag-batch specification: renameTag, addTags and removeTags work on a
   vault of three notes while one file system call of the run may fail *)

\* most batch calls in one behaviour
MaxBatchCalls == 1

NoteB == <<"b">> \o MdExt
NoteBB == <<"b", "b">> \o MdExt
NoteC == <<"c">> \o MdExt
NoteN == <<"n">> \o MdExt

\* notes: an inline tag, a tag list with an inline descendant, no tag at
\* all, an empty note, a frontmatter that gives one key twice
InlineNote == <<"#", "a">>
TaggedNote == FrontmatterOpen \o <<"t", "a", "g", "s", ":", "\n", " ", " ", "-", " ", "a">> \o
              FrontmatterClose \o <<"#", "a", "/", "b">>
PlainNote == <<"x">>
EmptyNote == <<>>
BrokenNote == FrontmatterOpen \o <<"k", ":", " ", "x", "\n", "k", ":", " ", "x">> \o
              FrontmatterClose \o <<"#", "a">>
\* no tag, and two blank lines in a row
SpacedNote == <<"x", "\n", "\n", "\n", "y">>
\* capitals, a descendant, and the old tag inside a comment
MixedNote == <<"#", "A", " ", "#", "a", "/", "B", " ", "x", "\n",
               "<", "!", "-", "-", "\n", "#", "a", "\n", "-", "-", ">">>

SavedSearches == {NoSearch,
                  [exists |-> TRUE,
                   queries |-> << <<"t", "a", "g", ":", "a", "/", "b", " ", "#", "a", "b">> >>,
                   pretty |-> FALSE]}

\* the call that fails, if any: readFile and writeFile of a note, mkdir and
\* copyFile of the snapshot
Faults ==
  {NoFault, [op |-> "mkdir", at |-> <<>>]}
  \cup [op : {"readFile", "writeFile", "copyFile"}, at : {NoteB, NoteC}]

RenameOldTags == {TagA, <<"a", "!">>}
\* new tags: an unrelated tag, and a tag below the old one
RenameNewTags == {TagZ, <<"a", "/", "z">>}
BatchSizes == {1, 2}
BatchTargets == {<<NoteB>>, <<NoteB, NoteBB, NoteC>>}
BatchTags == {<<TagZ>>, <<TagA>>}
Locations == {"frontmatter", "content", "both"}

BatchInit ==
  /\ PathIdle
  /\ EditIdle
  /\ TagIdle
  /\ moveCall = NoMove
  /\ trash = {}
  /\ batchCall = NoBatchCall
  /\ backupDir = [f \in PathSet |-> Absent]
  /\ searchConfig \in SavedSearches
  /\ \E first \in {InlineNote, TaggedNote, PlainNote, SpacedNote},
        second \in {InlineNote, TaggedNote, PlainNote, EmptyNote, BrokenNote, MixedNote},
        third \in {InlineNote, PlainNote, EmptyNote} :
       files = [f \in PathSet |->
                  IF f = NoteB THEN first
                  ELSE IF f = NoteC THEN second
                  ELSE IF f = NoteN THEN third
                  ELSE Absent]

\* the record of a call that starts now
BatchCalled(op, fault) ==
  [NoBatchCall EXCEPT !.op = op, !.fault = fault, !.before = files,
                      !.searchBefore = searchConfig, !.calls = batchCall.calls + 1,
                      !.previous = batchCall.previous]

RenameTag ==
  /\ batchCall.op = "none"
  /\ batchCall.calls < MaxBatchCalls
  /\ \E oldTag \in RenameOldTags, newTag \in RenameNewTags, createBackup \in BOOLEAN,
        normalize \in BOOLEAN, batchSize \in BatchSizes, fault \in Faults :
       LET called == [BatchCalled("renameTag", fault) EXCEPT
                        !.oldTag = oldTag, !.newTag = newTag, !.createBackup = createBackup,
                        !.normalize = normalize, !.batchSize = batchSize]
           replacements == <<[oldTag |-> oldTag, newTag |-> newTag]>>
           snapshot == createVaultBackup(files, fault)
           listed == getAllMarkdownFiles(files)
       IN /\ fault.op \in {"mkdir", "copyFile"} => createBackup
          /\ IF ~validateTag(oldTag) \/ ~validateTag(newTag)
             THEN /\ batchCall' = [called EXCEPT !.outcome = "threw", !.error = "InvalidParams"]
                  /\ UNCHANGED <<files, backupDir, searchConfig>>
             ELSE IF createBackup /\ snapshot.failed
             THEN /\ backupDir' = snapshot.backup
                  /\ batchCall' = [called EXCEPT !.outcome = "threw", !.error = "EIO"]
                  /\ UNCHANGED <<files, searchConfig>>
             ELSE \E processFn \in
                       {[f \in PathSet |->
                           IF files[f] = Absent
                           THEN [writes |-> {Absent}, successful |-> <<>>, failed |-> <<>>]
                           ELSE ProcessFile(f, files[f], replacements, normalize, fault)]} :
                    LET done == RenameBatches(listed, 0, batchSize, processFn)
                    IN /\ backupDir' = IF createBackup THEN snapshot.backup ELSE backupDir
                       /\ files' \in VaultsLeft([f \in PathSet |-> processFn[f].writes], fault)
                       /\ searchConfig' = updateSavedSearches(searchConfig, replacements,
                                                              normalize)
                       /\ batchCall' = [called EXCEPT !.outcome = "returned",
                                                      !.successful = done.successful,
                                                      !.failed = done.failed]
  /\ UNCHANGED <<moveCall, trash, pathVars, editVars, tagVars>>

AddTagsCall(maxCalls, faults) ==
  /\ batchCall.op = "none"
  /\ batchCall.calls < maxCalls
  /\ \E targets \in BatchTargets, tags \in BatchTags, location \in Locations,
        position \in {"start", "end"}, fault \in faults :
       LET normalize == TRUE
           called == [BatchCalled("addTags", fault) EXCEPT
                        !.targets = targets, !.tags = tags, !.location = location,
                        !.position = position, !.normalize = normalize]
       IN /\ fault.op \in {"none", "readFile", "writeFile"}
          /\ \E done \in {[f \in PathSet |->
                             AddTagsToFile(f, files[f], tags, location, normalize, position, fault)]} :
               /\ files' \in VaultsLeft([f \in PathSet |-> IF Contains(targets, f)
                                                           THEN done[f].writes
                                                           ELSE {files[f]}], fault)
               /\ batchCall' =
                    [called EXCEPT !.outcome = "returned",
                                   !.successful = Flatten([k \in 1..Len(targets) |->
                                                             done[targets[k]].successful]),
                                   !.failed = Flatten([k \in 1..Len(targets) |->
                                                         done[targets[k]].failed])]
  /\ UNCHANGED <<moveCall, trash, backupDir, searchConfig, pathVars, editVars, tagVars>>

AddTags == AddTagsCall(MaxBatchCalls, Faults)

RemoveTags ==
  /\ batchCall.op = "none"
  /\ batchCall.calls < MaxBatchCalls
  /\ \E targets \in BatchTargets, location \in Locations, fault \in Faults :
       LET tags == <<TagA>>
           called == [BatchCalled("removeTags", fault) EXCEPT
                        !.targets = targets, !.tags = tags, !.location = location]
       IN /\ fault.op \in {"none", "readFile", "writeFile"}
          /\ \E done \in {[f \in PathSet |->
                             RemoveTagsFromFile(f, files[f], tags, location, DefaultOptions, fault)]} :
               /\ files' \in VaultsLeft([f \in PathSet |-> IF Contains(targets, f)
                                                           THEN done[f].writes
                                                           ELSE {files[f]}], fault)
               /\ batchCall' =
                    [called EXCEPT !.outcome = "returned",
                                   !.successful = Flatten([k \in 1..Len(targets) |->
                                                             done[targets[k]].successful]),
                                   !.failed = Flatten([k \in 1..Len(targets) |->
                                                         done[targets[k]].failed])]
  /\ UNCHANGED <<moveCall, trash, backupDir, searchConfig, pathVars, editVars, tagVars>>

\* the report or the error reaches the caller
BatchReturn ==
  /\ batchCall.op # "none"
  /\ batchCall' = [NoBatchCall EXCEPT !.calls = batchCall.calls]
  /\ UNCHANGED <<files, moveCall, trash, backupDir, searchConfig, pathVars, editVars, tagVars>>

BatchNext ==
  \/ RenameTag
  \/ AddTags
  \/ RemoveTags
  \/ BatchReturn

SpecBatch == BatchInit /\ [][BatchNext]_vars

------------------------------------------------------------------------------
(* The rename-run specification: one renameTag call taken step by step, the
   callbacks of a batch running at once, each from one await to its next *)

\* array.slice(start, end): a negative index counts from the end of the array
JsSlice(s, start, end) ==
  LET from == IF start < 0 THEN (IF Len(s) + start < 0 THEN 0 ELSE Len(s) + start)
              ELSE IF start > Len(s) THEN Len(s) ELSE start
      to == IF end < 0 THEN (IF Len(s) + end < 0 THEN 0 ELSE Len(s) + end)
            ELSE IF end > Len(s) THEN Len(s) ELSE end
  IN IF to <= from THEN <<>> ELSE SubSeq(s, from + 1, to)

\* the loop index stops changing once it is so far below zero that adding
\* batchSize gives the same number again; every batch taken from a negative
\* index with a negative batchSize is empty, so this bound stands for that
\* number
MaxBelowZero == 2
MinRunIndex == 0 - MaxBelowZero

\* batchSize: the schema asks for a number and nothing more
RunBatchSizes == {0 - 1, 0, 1, 2}

NoRun == [op |-> "none", pc |-> "idle", oldTag |-> <<>>, newTag |-> <<>>,
          createBackup |-> FALSE, normalize |-> TRUE, batchSize |-> 1,
          listed |-> <<>>, i |-> 0, batch |-> <<>>,
          phase |-> [f \in PathSet |-> "none"],
          updatedNote |-> [f \in PathSet |-> Absent],
          changes |-> [f \in PathSet |-> <<>>],
          handed |-> [f \in PathSet |-> 0],
          batchSuccessful |-> <<>>, batchFailed |-> <<>>,
          successful |-> <<>>, failed |-> <<>>, error |-> "none"]

\* the contents a note of this specification starts with
RunContents == {InlineNote, PlainNote, EmptyNote}

\* what the callback of processBatch does for a note, tabulated once for
\* the notes, contents and tags of this specification: ok tells whether
\* safeReadFile can read the note
RunProcessFile ==
  [f \in PathSet, content \in RunContents, oldTag \in RenameOldTags, ok \in BOOLEAN |->
     ProcessFile(f, content, <<[oldTag |-> oldTag, newTag |-> TagZ]>>, TRUE,
                 IF ok THEN NoFault ELSE [op |-> "readFile", at |-> f])]

\* updateSavedSearches tabulated in the same way
RunSavedSearches ==
  [search \in SavedSearches, oldTag \in RenameOldTags |->
     updateSavedSearches(search, <<[oldTag |-> oldTag, newTag |-> TagZ]>>, TRUE)]

RunInit ==
  /\ PathIdle
  /\ EditIdle
  /\ TagIdle
  /\ moveCall = NoMove
  /\ trash = {}
  /\ batchCall = NoRun
  /\ backupDir = [f \in PathSet |-> Absent]
  /\ searchConfig \in SavedSearches
  /\ \E first \in RunContents \ {EmptyNote}, second \in RunContents \ {PlainNote} :
       files = [f \in PathSet |->
                  IF f = NoteB THEN first
                  ELSE IF f = NoteC THEN second
                  ELSE IF f = NoteN THEN InlineNote
                  ELSE Absent]

\* lines 386-413: the tags are validated, the backup is taken, the notes are
\* listed
RunRenameTag ==
  /\ batchCall.pc = "idle"
  /\ \E oldTag \in RenameOldTags, createBackup \in BOOLEAN, batchSize \in RunBatchSizes :
       LET called == [NoRun EXCEPT !.op = "renameTag", !.oldTag = oldTag, !.newTag = TagZ,
                                   !.createBackup = createBackup, !.batchSize = batchSize]
       IN IF ~validateTag(oldTag) \/ ~validateTag(TagZ)
          THEN /\ batchCall' = [called EXCEPT !.pc = "threw", !.error = "InvalidParams"]
               /\ backupDir' = backupDir
          ELSE /\ batchCall' = [called EXCEPT !.pc = "loop",
                                              !.listed = getAllMarkdownFiles(files)]
               /\ backupDir' = IF createBackup THEN createVaultBackup(files, NoFault).backup
                               ELSE backupDir
  /\ UNCHANGED <<files, searchConfig, moveCall, trash, pathVars, editVars, tagVars>>

\* line 419, the test of the loop, and lines 251-256 of the processBatch it
\* calls: the batch is sliced and batch.map starts every callback, each
\* running up to its await of safeReadFile
RunLoop ==
  /\ batchCall.pc = "loop"
  /\ IF batchCall.i < Len(batchCall.listed)
     THEN \E batch \in {JsSlice(batchCall.listed, batchCall.i,
                                 batchCall.i + batchCall.batchSize)} :
            batchCall' =
              [batchCall EXCEPT
                 !.pc = "batch", !.batch = batch,
                 !.batchSuccessful = <<>>, !.batchFailed = <<>>,
                 !.phase = [f \in PathSet |-> IF Contains(batch, f) THEN "reading"
                                              ELSE batchCall.phase[f]],
                 !.handed = [f \in PathSet |-> IF Contains(batch, f)
                                               THEN batchCall.handed[f] + 1
                                               ELSE batchCall.handed[f]]]
     ELSE batchCall' = [batchCall EXCEPT !.pc = "searches"]
  /\ UNCHANGED <<files, backupDir, searchConfig, moveCall, trash, pathVars, editVars, tagVars>>

\* lines 258-284 for one note: safeReadFile settles, the note is parsed,
\* both updates are computed; a note that cannot be read, cannot be parsed or
\* holds nothing to rename is finished, for another the updated note is
\* built and its writeFile is begun
RunRead(f) ==
  /\ batchCall.pc = "batch"
  /\ batchCall.phase[f] = "reading"
  /\ \E ok \in BOOLEAN :
       \E r \in {RunProcessFile[f, files[f], batchCall.oldTag, ok]} :
         batchCall' =
           IF r.failed = <<>> /\ r.successful # <<>>
           THEN [batchCall EXCEPT !.phase[f] = "writing",
                                  !.updatedNote[f] = CHOOSE w \in r.writes : TRUE,
                                  !.changes[f] = r.successful]
           ELSE [batchCall EXCEPT !.phase[f] = "finished",
                                  !.batchFailed = @ \o r.failed]
  /\ UNCHANGED <<files, backupDir, searchConfig, moveCall, trash, pathVars, editVars, tagVars>>

\* lines 284-314 for one note: writeFile settles and the callback records
\* the changes, or its catch records the failure
RunWrite(f) ==
  /\ batchCall.pc = "batch"
  /\ batchCall.phase[f] = "writing"
  /\ \E ok \in BOOLEAN :
       IF ok
       THEN /\ files' = [files EXCEPT ![f] = batchCall.updatedNote[f]]
            /\ batchCall' = [batchCall EXCEPT !.phase[f] = "finished",
                                              !.batchSuccessful = @ \o batchCall.changes[f]]
       ELSE /\ \E left \in WriteFailureLeaves(files[f], batchCall.updatedNote[f]) :
                 files' = [files EXCEPT ![f] = left]
            /\ batchCall' = [batchCall EXCEPT
                               !.phase[f] = "finished",
                               !.batchFailed = @ \o <<[filePath |-> f, error |-> "EIO"]>>]
  /\ UNCHANGED <<backupDir, searchConfig, moveCall, trash, pathVars, editVars, tagVars>>

\* lines 255 and 316: Promise.all settles when every callback of the batch
\* has (no callback rejects, each catches what it throws); lines 428-429 and
\* the i += batchSize of line 419
RunBatchDone ==
  /\ batchCall.pc = "batch"
  /\ \A k \in 1..Len(batchCall.batch) : batchCall.phase[batchCall.batch[k]] = "finished"
  /\ batchCall' =
       [batchCall EXCEPT
          !.pc = "loop",
          !.successful = @ \o batchCall.batchSuccessful,
          !.failed = @ \o batchCall.batchFailed,
          !.i = IF batchCall.i + batchCall.batchSize < MinRunIndex THEN MinRunIndex
                ELSE batchCall.i + batchCall.batchSize]
  /\ UNCHANGED <<files, backupDir, searchConfig, moveCall, trash, pathVars, editVars, tagVars>>

\* lines 432-445: the saved searches are updated and the report is returned
RunSearches ==
  /\ batchCall.pc = "searches"
  /\ searchConfig' = RunSavedSearches[searchConfig, batchCall.oldTag]
  /\ batchCall' = [batchCall EXCEPT !.pc = "returned"]
  /\ UNCHANGED <<files, backupDir, moveCall, trash, pathVars, editVars, tagVars>>

RunNext ==
  \/ RunRenameTag
  \/ RunLoop
  \/ \E f \in PathSet : RunRead(f)
  \/ \E f \in PathSet : RunWrite(f)
  \/ RunBatchDone
  \/ RunSearches

SpecRun == RunInit /\ [][RunNext]_vars

\* the event loop runs every continuation that is ready, and every read and
\* write the run waits for settles
SpecRunFair == SpecRun /\ WF_vars(RunNext)

------------------------------------------------------------------------------
(* The repeated-addTags specification: addTags is called more than once on
   one vault, every call running without an I/O failure *)

MaxAddCalls == 2

AddInit ==
  /\ PathIdle
  /\ EditIdle
  /\ TagIdle
  /\ moveCall = NoMove
  /\ trash = {}
  /\ BatchIdle
  /\ \E first \in {InlineNote, TaggedNote, PlainNote}, second \in {PlainNote, TaggedNote} :
       files = [f \in PathSet |->
                  IF f = NoteB THEN first
                  ELSE IF f = NoteC THEN second
                  ELSE Absent]

AddTagsAgain == AddTagsCall(MaxAddCalls, {NoFault})

\* the call returns; what it was given stays known to the next call
AddTagsReturn ==
  /\ batchCall.op = "addTags"
  /\ batchCall' = [NoBatchCall EXCEPT
                     !.calls = batchCall.calls,
                     !.previous = [op |-> batchCall.op, tags |-> batchCall.tags,
                                   targets |-> batchCall.targets,
                                   location |-> batchCall.location,
                                   position |-> batchCall.position]]
  /\ UNCHANGED <<files, moveCall, trash, backupDir, searchConfig, pathVars, editVars, tagVars>>

AddNext ==
  \/ AddTagsAgain
  \/ AddTagsReturn

SpecAdd == AddInit /\ [][AddNext]_vars

-----------------------------------------------------------------------------
(* The cross-vault specification: updateVaultLinks runs over one vault for a
   note that left it for another vault, or came into it from another vault *)

\* most updateVaultLinks calls in one behaviour
MaxCrossCalls == 1

\* the moved note, by its path relative to the vault root
CrossNotes == {<<"b">> \o MdExt, <<"b", "+">> \o MdExt}

\* the names of the vault the note left and of the vault it went to
CrossSourceVault == <<"s">>
CrossDestVault == <<"d">>

\* updateVaultLinks(vaultPath, notePath, null, source, dest) in the vault the
\* note left, updateVaultLinks(vaultPath, null, notePath, source, dest) in the
\* vault it went to
UpdateVaultLinks ==
  /\ moveCall.op = "none"
  /\ moveCall.moves < MaxCrossCalls
  /\ \E notePath \in CrossNotes, movedIn \in BOOLEAN :
       LET oldPath == IF movedIn THEN NoPath ELSE notePath
           newPath == IF movedIn THEN notePath ELSE NoPath
           done == updateVaultLinks(files, oldPath, newPath, CrossSourceVault, CrossDestVault)
       IN /\ files' = done.fs
          /\ moveCall' = [NoMove EXCEPT !.op = "updateVaultLinks", !.source = oldPath,
                                        !.destination = newPath,
                                        !.sourceVaultName = CrossSourceVault,
                                        !.destVaultName = CrossDestVault,
                                        !.before = files, !.outcome = "returned",
                                        !.updatedFiles = done.updatedFiles,
                                        !.moves = moveCall.moves + 1]
  /\ UNCHANGED <<trash, batchVars, pathVars, editVars, tagVars>>

\* the count reaches the caller
CrossReturn ==
  /\ moveCall.op = "updateVaultLinks"
  /\ moveCall' = [NoMove EXCEPT !.moves = moveCall.moves]
  /\ UNCHANGED <<files, trash, batchVars, pathVars, editVars, tagVars>>

CrossNext ==
  \/ UpdateVaultLinks
  \/ CrossReturn

SpecCross == LinkInit /\ [][CrossNext]_vars

-----------------------------------------------------------------------------
(* RollbackEditor claims *)

IsEdit(e) == ed[e].operation \in {"append", "prepend", "replace"}

\* what the destructive step of invocation e leaves on disk when it succeeds
EditResult(e) == IF ed[e].operation = "delete" THEN Absent ELSE ed[e].newContent

\* C3 (as stated): when the write of an append / prepend / replace fails after
\* the backup was created, the note's bytes on disk equal its bytes before
\* the edit at the moment the error reaches the caller.
C3_WriteFailureLeavesOriginal ==
  \A e \in Editors :
    (ed[e].pc = "thrown" /\ IsEdit(e) /\ ed[e].backedUp /\ ed[e].writeFailed)
      => note = ed[e].orig

\* C3 (amended): the same, unless the last copy of the backup back onto the
\* note failed.
C3_WriteFailureRestoredUnlessRestoreFails ==
  \A e \in Editors :
    (ed[e].pc = "thrown" /\ IsEdit(e) /\ ed[e].writeFailed /\ ed[e].lastRestore # "failed")
      => note = ed[e].orig

C3_Witness ==
  /\ ed["e1"].pc = "thrown"
  /\ ed["e1"].operation = "replace"
  /\ ed["e1"].writeFailed
  /\ ed["e1"].restoreFailed
  /\ ed["e1"].lastRestore = "ok"
  /\ ed["e1"].orig = <<"x", "\n">>
  /\ note = ed["e1"].orig

\* C4: a backup holding the note's original bytes exists whenever a step
\* changes or removes the note, and a step removes the backup only when the
\* destructive write is confirmed (the note holds its result) or the note
\* holds its original bytes again.
C4_BackupDiscipline ==
  [][\A e \in Editors :
       ed[e].pc # "idle" =>
         /\ (note' # note => backup[ed[e].timestamp] = ed[e].orig)
         /\ (backup[ed[e].timestamp] # Absent /\ backup'[ed[e].timestamp] = Absent)
              => \/ ed[e].written /\ note = EditResult(e)
                 \/ note = ed[e].orig]_vars

C4_Witness ==
  /\ ed["e1"].pc = "thrown"
  /\ ed["e1"].backedUp
  /\ ed["e1"].writeFailed
  /\ backup[ed["e1"].timestamp] = Absent
  /\ note = ed["e1"].orig

\* C5: when restoring from the backup fails too, the error delivered names
\* the original cause, the restoration failure and the backup path, and the
\* backup file still exists when the error is delivered.
C5_RollbackFailureKeepsBackup ==
  \A e \in Editors :
    (ed[e].pc = "thrown" /\ ed[e].restoreFailed)
      => /\ {"rollbackFailed", "backupPath"} \subseteq ed[e].thrown.names
         /\ ed[e].thrown.names \cap {"write", "read", "unlink", "unlinkBackup"} # {}
         /\ backup[ed[e].timestamp] # Absent

-----------------------------------------------------------------------------
(* PathGuard claims *)

\* the path the containment check is about: the target with its symlinks
\* resolved, or its parent directory when the target cannot be resolved
ResolvedForContainment(t, rt, rp) ==
  LET n == normalizePath(t)
  IN IF n = Err THEN Err
     ELSE IF Realpath(n, rt) # Err THEN Realpath(n, rt)
     ELSE Realpath(PosixDirname(n), rp)

\* whole-segment containment of p in the directory root
InsideVault(root, p) == p # Err /\ (p = root \/ StartsWith(p, root \o <<"/">>))

MustBeRejected(root, t, rt, rp) ==
  t = root \/ ~InsideVault(root, ResolvedForContainment(t, rt, rp))

\* C1: validateVaultPath throws for every target equal to the vault root or
\* whose resolved path is not inside the vault, so a handler never reaches
\* its first file access for such a target.
C1_NoFileAccessOutsideVault ==
  (pathCall.op = "validateVaultPath" /\ pathCall.outcome = "fileAccess")
    => ~MustBeRejected(vaultPath, pathCall.target, pathCall.rpTarget, pathCall.rpParent)

\* C2: with segments free of parent-directory traversal, the path
\* safeJoinPath returns starts with normalizePath of the vault root.
C2_SafeJoinStaysUnderRoot ==
  (pathCall.op = "safeJoinPath" /\ pathCall.result # Err)
    => StartsWith(pathCall.result, normalizePath(vaultPath))

C2_Witness ==
  /\ pathCall.op = "safeJoinPath"
  /\ pathCall.result # Err
  /\ Len(pathCall.segments) = 2
  /\ pathCall.segments[1] = <<"a", "\\", "b">>
  /\ Len(pathCall.result) > Len(vaultPath) + 4

\* C6: checkPathSafety fails closed: when resolving the target and resolving
\* its parent directory both raise an error, the result is false.
C6_FailsClosed ==
  (/\ pathCall.op = "checkPathSafety"
   /\ normalizePath(pathCall.target) # Err
   /\ pathCall.rpTarget.kind = "error"
   /\ pathCall.rpParent.kind = "error")
    => pathCall.outcome = "false"

C6_Witness ==
  /\ pathCall.op = "checkPathSafety"
  /\ StartsWith(pathCall.target, vaultPath \o <<"/">>)
  /\ normalizePath(pathCall.target) # Err
  /\ pathCall.rpTarget.kind = "error"
  /\ pathCall.rpParent.kind = "error"
  /\ pathCall.outcome = "false"

-----------------------------------------------------------------------------
(* TagModel claims *)

\* the tag list a frontmatter holds after a call
TagsLeft == ExistingTags(tagCall.out.frontmatter)

\* t itself or a strict descendant of t
IsOrBelow(tag, t) == tag = t \/ isParentTag(t, tag)

\* C7: removing tag t with preserveChildren = false removes t and every
\* strict descendant of t, from the frontmatter tag list as well as from the
\* live inline tags, so that {a, a/b, c} without a is {c}
C7_RemovalTakesDescendants ==
  /\ (tagCall.op = "removeTagsFromFrontmatter" /\ ~tagCall.options.preserveChildren)
       => \A r \in 1..Len(tagCall.tags), i \in 1..Len(TagsLeft) :
            ~IsOrBelow(normalizeTag(TagsLeft[i], tagCall.options.normalize),
                       normalizeTag(tagCall.tags[r], tagCall.options.normalize))
  /\ (tagCall.op = "removeInlineTags" /\ ~tagCall.options.preserveChildren)
       => \A r \in 1..Len(tagCall.tags) :
            LET live == extractTags(tagCall.out.content)
            IN \A i \in 1..Len(live) :
                 ~IsOrBelow(normalizeTag(live[i], tagCall.options.normalize),
                            normalizeTag(tagCall.tags[r], tagCall.options.normalize))

\* the "#" at position p of the text lies after a comment opening that no
\* comment closing before p has ended
InsideComment(text, p) ==
  \E i \in 1..(p - 4) :
    /\ SubSeq(text, i, i + 3) = CommentOpen
    /\ ~\E j \in (i + 4)..(p - 3) : SubSeq(text, j, j + 2) = CommentClose

\* position p of the text lies on a line between an opening fence line and
\* the fence line that closes it
InsideFence(text, p) ==
  LET before == SplitOn(SubSeq(text, 1, p), "\n")
      fences == {n \in 1..(Len(before) - 1) : IsFenceLine(before[n])}
  IN Cardinality(fences) % 2 = 1

AllHashtagsShielded(text) ==
  /\ \E p \in 1..Len(text) : text[p] = "#"
  /\ \A p \in 1..Len(text) : text[p] = "#" => InsideComment(text, p) \/ InsideFence(text, p)

HashtagLines(text) == SelectSeq(SplitOn(text, "\n"), LAMBDA line : Includes(line, <<"#">>))

\* C8: a hashtag inside a fenced code block or inside an HTML comment, a
\* comment that opens and closes on one line included, is never removed by
\* removeInlineTags, which reports it as preserved, and never renamed by
\* updateInlineTags
C8_ShieldedHashtagsAreInert ==
  /\ (tagCall.op = "removeInlineTags" /\ AllHashtagsShielded(tagCall.content))
       => /\ tagCall.out.removed = <<>>
          /\ HashtagLines(tagCall.out.content) = HashtagLines(tagCall.content)
  /\ (tagCall.op = "updateInlineTags" /\ AllHashtagsShielded(tagCall.content))
       => /\ tagCall.out.changes = <<>>
          /\ tagCall.out.content = tagCall.content

\* C9: stringifyNote(parseNote(x)) = x for every well-formed note x whose
\* frontmatter is not empty
C9_ParseStringifyRoundTrip ==
  (/\ tagCall.op = "stringifyNote"
   /\ tagCall.out.error = "none"
   /\ tagCall.out.hasFrontmatter
   /\ tagCall.frontmatter # <<>>)
    => tagCall.out.text = tagCall.content

-----------------------------------------------------------------------------
(* LinkRewriter claims *)

Moved == moveCall.op = "moveNote" /\ moveCall.outcome = "moved"

OldNoteName == Basename(moveCall.source, MdExt)
NewNoteName == Basename(moveCall.destination, MdExt)

\* the aliases ("|alias", empty without one) of the wiki links to the name,
\* the name taken character by character, in the order they stand in the text
RECURSIVE WikiLinksTo(_, _, _)
WikiLinksTo(text, i, name) ==
  IF i > Len(text) THEN <<>>
  ELSE LET m == WikiMatch(LiteralAtoms(name), text, i)
       IN IF m.found THEN <<m.group>> \o WikiLinksTo(text, m.next, name)
          ELSE WikiLinksTo(text, i + 1, name)

\* the link texts of the markdown links to name.md, in order
RECURSIVE MdLinksTo(_, _, _)
MdLinksTo(text, i, name) ==
  IF i > Len(text) THEN <<>>
  ELSE LET m == MdMatch(LiteralAtoms(name), text, i)
       IN IF m.found THEN <<m.group>> \o MdLinksTo(text, m.next, name)
          ELSE MdLinksTo(text, i + 1, name)

RECURSIVE IsSubsequence(_, _)
IsSubsequence(xs, ys) ==
  IF xs = <<>> THEN TRUE
  ELSE IF ys = <<>> THEN FALSE
  ELSE IF Head(xs) = Head(ys) THEN IsSubsequence(Tail(xs), Tail(ys))
  ELSE IsSubsequence(xs, Tail(ys))

OtherNotes == {f \in PathSet : f # moveCall.destination /\ files[f] # Absent}

\* C10: after note B was renamed to C inside the vault, every [[B]],
\* [[B|alias]] and [text](B.md) of every other note points at C, alias and
\* link text kept, and updateVaultLinks returns the number of files whose
\* content changed
C10_RenameRepointsEveryLink ==
  (Moved /\ OldNoteName # NewNoteName) =>
    /\ \A f \in OtherNotes :
         /\ WikiLinksTo(files[f], 1, OldNoteName) = <<>>
         /\ MdLinksTo(files[f], 1, OldNoteName) = <<>>
         /\ IsSubsequence(WikiLinksTo(moveCall.before[f], 1, OldNoteName),
                          WikiLinksTo(files[f], 1, NewNoteName))
         /\ IsSubsequence(MdLinksTo(moveCall.before[f], 1, OldNoteName),
                          MdLinksTo(files[f], 1, NewNoteName))
    /\ moveCall.updatedFiles = Cardinality({f \in OtherNotes : files[f] # moveCall.before[f]})

Deleted == moveCall.op = "deleteNote" /\ moveCall.outcome \in {"deleted", "trashed"}

\* the aliases of the wiki links to the name, taken character by character,
\* that stand between a "~~" and a "~~"
RECURSIVE StruckLinksTo(_, _, _)
StruckLinksTo(text, i, name) ==
  IF i > Len(text) THEN <<>>
  ELSE LET m == WikiMatch(LiteralAtoms(name), text, i + 2)
       IN IF At(text, i, <<"~", "~">>) /\ m.found /\ At(text, m.next, <<"~", "~">>)
          THEN <<m.group>> \o StruckLinksTo(text, m.next + 2, name)
          ELSE StruckLinksTo(text, i + 1, name)

TrashedAs(name) == {t \in trash : t.name = name}

\* C11: deleting note B wraps every reference [[B]] of the other notes into
\* ~~[[B]]~~, and after a delete that is not permanent the trash file the
\* delete produced holds B's content as it was before the delete was asked for
C11_DeleteStrikesLinksAndKeepsContent ==
  Deleted =>
    /\ \A f \in PathSet :
         (f # moveCall.source /\ moveCall.before[f] # Absent)
           => IsSubsequence(WikiLinksTo(moveCall.before[f], 1, Basename(moveCall.source, MdExt)),
                            StruckLinksTo(files[f], 1, Basename(moveCall.source, MdExt)))
    /\ moveCall.outcome = "trashed"
         => \E t \in TrashedAs(moveCall.trashName) :
              EndsWith(t.content, <<"\n", "-", "-", "-", "\n", "\n">> \o
                                  moveCall.before[moveCall.source])

-----------------------------------------------------------------------------
(* TagBatch claims *)

RenameReturned == batchCall.op = "renameTag" /\ batchCall.outcome = "returned"

\* the notes the call found in the vault
ListedBefore == getAllMarkdownFiles(batchCall.before)

\* the entries of a list of the report that name the note
EntriesOf(entries, f) == SelectSeq(entries, LAMBDA entry : entry.filePath = f)

FailedNotes == {batchCall.failed[i].filePath : i \in 1..Len(batchCall.failed)}
SucceededNotes == {batchCall.successful[i].filePath : i \in 1..Len(batchCall.successful)}

\* what renameTag does with the note when no call fails
Undisturbed(f) ==
  ProcessFile(f, batchCall.before[f],
              <<[oldTag |-> batchCall.oldTag, newTag |-> batchCall.newTag]>>,
              batchCall.normalize, NoFault)

\* every note but the one the fault hit was handled as if nothing had failed
SiblingsUndisturbed ==
  \A f \in PathSet :
    (batchCall.before[f] # Absent /\ f # batchCall.fault.at)
      => /\ files[f] \in Undisturbed(f).writes
         /\ EntriesOf(batchCall.successful, f) = Undisturbed(f).successful
         /\ EntriesOf(batchCall.failed, f) = Undisturbed(f).failed

\* three notes, the second of them unreadable, the other two well-formed
SecondOfThreeUnreadable ==
  /\ RenameReturned
  /\ Len(ListedBefore) = 3
  /\ batchCall.fault = [op |-> "readFile", at |-> ListedBefore[2]]
  /\ \A f \in {ListedBefore[1], ListedBefore[3]} : parseNote(batchCall.before[f]).error = "none"

\* C12: a renameTag call whose read, parse or write of one note fails
\* records that note in failed and handles every other note of the same and
\* of later batches as if nothing had failed; with three notes of which the
\* second is unreadable, the report holds exactly one failure and successes
\* for at most two notes.
C12_NoteFailureIsIsolated ==
  /\ (RenameReturned /\ batchCall.fault.op \in {"readFile", "writeFile"})
       => SiblingsUndisturbed
  /\ SecondOfThreeUnreadable
       => /\ Len(batchCall.failed) = 1
          /\ Cardinality(SucceededNotes) <= 2

\* the notes the call was to handle: the listed ones for renameTag, the
\* files argument for addTags and removeTags
Handled(f) ==
  IF batchCall.op = "renameTag" THEN batchCall.before[f] # Absent
  ELSE Contains(batchCall.targets, f)

\* the failures of handling one note that the call cannot miss: the note
\* does not exist, cannot be read, or holds a frontmatter that does not parse
NoteFails(f) ==
  \/ batchCall.before[f] = Absent
  \/ batchCall.fault = [op |-> "readFile", at |-> f]
  \/ parseNote(batchCall.before[f]).error # "none"

\* C13 as stated: a batch operation (renameTag, addTags, removeTags) throws
\* to its caller only when it achieved no success and had at least one
\* per-note failure.
C13_ThrowsOnlyWhenAllNotesFailed ==
  batchCall.outcome = "threw"
    => batchCall.successful = <<>> /\ batchCall.failed # <<>>

\* C13 amended: a batch operation throws only before it handles its first
\* note (renameTag for an invalid tag or a failed snapshot; addTags and
\* removeTags never), the vault left as it was; once notes are handled it
\* returns a report, even when every note failed, in which every failed note
\* is in the failures and every rewritten note in the successes or failures.
C13_ThrowsOnlyBeforeTheFirstNote ==
  /\ batchCall.outcome = "threw"
       => /\ batchCall.op = "renameTag"
          /\ \/ ~validateTag(batchCall.oldTag)
             \/ batchCall.createBackup /\ batchCall.fault.op \in {"mkdir", "copyFile"}
          /\ files = batchCall.before
          /\ batchCall.successful = <<>> /\ batchCall.failed = <<>>
  /\ batchCall.outcome = "returned"
       => /\ FailedNotes \cap SucceededNotes = {}
          /\ \A f \in PathSet :
               Handled(f) => /\ NoteFails(f) => f \in FailedNotes
                             /\ files[f] # batchCall.before[f]
                                  => f \in FailedNotes \cup SucceededNotes

\* a call that returned its report although no note succeeded and one failed
C13_Witness ==
  /\ batchCall.outcome = "returned"
  /\ batchCall.successful = <<>>
  /\ batchCall.failed # <<>>
  /\ batchCall.fault.op = "readFile"

-----------------------------------------------------------------------------
(* Tag rename claims *)

\* the characters of a tag as the notes hold them: normalizeTag writes "-"
\* between the words of a tag
TagChars == AlNum \cup {"/", "-"}

\* what the rename is to make of the tag u: new and the rest of u when u is
\* old or below it, u itself otherwise; tags are compared as the call
\* normalizes them
Renamed(u, replacement, normalize) ==
  LET normalizedTag == normalizeTag(u, normalize)
      normalizedOldTag == normalizeTag(replacement.oldTag, normalize)
  IN IF \/ normalizedTag = normalizedOldTag
        \/ StartsWith(normalizedTag, normalizedOldTag \o <<"/">>)
     THEN [hit |-> TRUE,
           tag |-> normalizeTag(replacement.newTag, normalize) \o
                   Slice(normalizedTag, Len(normalizedOldTag))]
     ELSE [hit |-> FALSE, tag |-> u]

\* a line with each of its tags renamed, from position i on
RECURSIVE RenamedLine(_, _, _, _)
RenamedLine(line, i, replacement, normalize) ==
  IF i > Len(line) THEN <<>>
  ELSE IF line[i] = "#" /\ i < Len(line) /\ line[i + 1] \in AlNum
  THEN LET k == CHOOSE n \in 1..(Len(line) - i) :
                  /\ \A j \in 1..n : line[i + j] \in TagChars
                  /\ (i + n + 1 > Len(line) \/ line[i + n + 1] \notin TagChars)
       IN <<"#">> \o Renamed(SubSeq(line, i + 1, i + k), replacement, normalize).tag \o
          RenamedLine(line, i + k + 1, replacement, normalize)
  ELSE <<line[i]>> \o RenamedLine(line, i + 1, replacement, normalize)

RenamedContent(content, replacement, normalize) ==
  LET lines == SplitOn(content, "\n")
  IN JoinWith([n \in 1..Len(lines) |->
                 IF LineIsInert(lines, n) THEN lines[n]
                 ELSE RenamedLine(lines[n], 1, replacement, normalize)], <<"\n">>)

\* the tag list of a frontmatter with each tag renamed; a tag that is not
\* renamed may be kept as written or as normalizeTag spells it
RenamedList(tags, replacement, normalize) ==
  [i \in 1..Len(tags) |->
     IF Renamed(tags[i], replacement, normalize).hit
     THEN Renamed(tags[i], replacement, normalize).tag
     ELSE normalizeTag(tags[i], normalize)]

\* C14: in a rename old -> new a tag u of the frontmatter list or of the
\* live text is replaced exactly when u is old or begins with old followed
\* by "/", and then by new followed by what u holds after old; every other
\* tag is left as it is.
C14_RenameTakesTagAndDescendantsOnly ==
  /\ tagCall.op = "updateInlineTags"
       => tagCall.out.content =
            RenamedContent(tagCall.content, tagCall.replacements[1], tagCall.options.normalize)
  /\ (tagCall.op = "updateFrontmatterTags" /\ ExistingTags(tagCall.frontmatter) # <<>>)
       => ExistingTags(tagCall.out.frontmatter) =
            Sort(Dedup(RenamedList(ExistingTags(tagCall.frontmatter), tagCall.replacements[1],
                                   tagCall.options.normalize)))

\* C16: normalizeTag is idempotent on valid tags: normalizing the result of
\* normalizeTag for a tag validateTag accepts gives that result again.
C16_NormalizeTagIsIdempotent ==
  (tagCall.op = "normalizeTag" /\ validateTag(tagCall.tags[1]))
    => tagCall.out.twice = tagCall.out.once

\* a camel-case tag with a leading "#" and a run of capitals was normalized
C16_Witness ==
  /\ tagCall.op = "normalizeTag"
  /\ tagCall.options.normalize
  /\ tagCall.tags[1] = <<"a", "B", "c", "A">>
  /\ tagCall.out.once = <<"a", "-", "b", "c", "-", "a">>
  /\ tagCall.out.twice = tagCall.out.once

\* the tag, as the call normalizes it, matches one of the glob patterns
MatchesAPattern(tag, options) ==
  \E q \in 1..Len(options.patterns) :
    matchesTagPattern(options.patterns[q], normalizeTag(tag, options.normalize))

\* the tags of the sequence that match a pattern of the call
PatternTags(tags) == SelectSeq(tags, LAMBDA tag : MatchesAPattern(tag, tagCall.options))

\* C19: removeTagsFromFrontmatter and removeInlineTags remove every tag of
\* the list, and every live tag of the text, that matches one of the glob
\* patterns, whatever the list of target tags is, the empty list included.
C19_PatternsRemoveForEveryTargetList ==
  /\ tagCall.op = "removeTagsFromFrontmatter"
       => PatternTags(ExistingTags(tagCall.out.frontmatter)) = <<>>
  /\ tagCall.op = "removeInlineTags"
       => PatternTags(extractTags(tagCall.out.content)) = <<>>

-----------------------------------------------------------------------------
(* Vault root and normalizePath claims *)

IsPrefix(a, b) == Len(a) <= Len(b) /\ SubSeq(b, 1, Len(a)) = a

\* two of the roots are one directory, or one is a directory above another
RootsOverlap(paths) ==
  \E i, j \in 1..Len(paths) :
    i # j /\ IsPrefix(ResolvedSegs(paths[i]), ResolvedSegs(paths[j]))

\* C17: checkPathOverlap throws exactly when two of the roots are the same
\* directory or one root is an ancestor directory of another; roots that
\* only share a prefix of characters are accepted.
C17_OverlapIffEqualOrAncestor ==
  pathCall.op = "checkPathOverlap"
    => (pathCall.outcome = "threw" <=> RootsOverlap(pathCall.segments))

\* C20: normalizePath takes an absolute path whose last component holds a
\* colon and returns it unchanged.
C20_ColonInFilenameAccepted ==
  (/\ pathCall.op = "normalizePath"
   /\ pathCall.target[1] = "/"
   /\ \E i \in 1..Len(Filename(pathCall.target)) : Filename(pathCall.target)[i] = ":")
    => pathCall.outcome = "returned" /\ pathCall.result = pathCall.target

-----------------------------------------------------------------------------
(* Cross-vault link claims *)

CrossReturned == moveCall.op = "updateVaultLinks" /\ moveCall.outcome = "returned"

MovedOut == CrossReturned /\ moveCall.destination = NoPath
MovedIn == CrossReturned /\ moveCall.source = NoPath

MovedNoteName == Basename(IF MovedIn THEN moveCall.destination ELSE moveCall.source, MdExt)

\* the notes of the scanned vault other than the moved note
ScannedNotes == {f \in PathSet : f # MovedNoteName \o MdExt /\ moveCall.before[f] # Absent}

\* how often the provenance annotation for the vault stands in the text
RECURSIVE Annotations(_, _, _)
Annotations(text, i, vaultName) ==
  IF i > Len(text) THEN 0
  ELSE (IF At(text, i, MovedFrom(vaultName)) THEN 1 ELSE 0) + Annotations(text, i + 1, vaultName)

References(text, name) == Len(WikiLinksTo(text, 1, name)) + Len(MdLinksTo(text, 1, name))

\* C18: after updateVaultLinks ran for a note that left the vault for vault
\* d, every [[B]], [[B|alias]] and [text](B.md) of the other notes reads
\* d/B, and after it ran for a note that came in from vault s the references
\* to it are kept; in both directions every such reference is followed by
\* the annotation "*(moved from s)*"
C18_CrossVaultReferencesQualifiedAndAnnotated ==
  CrossReturned =>
    \A f \in ScannedNotes :
      LET qualified == moveCall.destVaultName \o <<"/">> \o MovedNoteName
      IN /\ MovedOut =>
              /\ References(files[f], MovedNoteName) = 0
              /\ IsSubsequence(WikiLinksTo(moveCall.before[f], 1, MovedNoteName),
                               WikiLinksTo(files[f], 1, qualified))
              /\ IsSubsequence(MdLinksTo(moveCall.before[f], 1, MovedNoteName),
                               MdLinksTo(files[f], 1, qualified))
         /\ MovedIn =>
              References(files[f], MovedNoteName) = References(moveCall.before[f], MovedNoteName)
         /\ Annotations(files[f], 1, moveCall.sourceVaultName)
              >= References(moveCall.before[f], MovedNoteName)

-----------------------------------------------------------------------------
(* Containment claims *)

\* a target in a sibling directory whose name extends the vault root's name
InExtendedSibling(root, t) ==
  /\ StartsWith(t, root)
  /\ Len(t) > Len(root)
  /\ t[Len(root) + 1] # "/"
  /\ ~Includes(t, <<".", ".">>)

\* C24: checkPathSafety(V, t) settles to false for every target t in a
\* sibling directory whose name extends the name of V as a string (V = /v,
\* t = /v2/x): containment is decided on whole path segments
C24_SiblingWithExtendedNameRejected ==
  (/\ pathCall.op = "checkPathSafety"
   /\ InExtendedSibling(vaultPath, pathCall.target)
   /\ pathCall.rpTarget.kind # "link"
   /\ pathCall.rpParent.kind # "link")
    => pathCall.outcome = "false"

-----------------------------------------------------------------------------
(* Delete failure claims *)

RemovalFailed == moveCall.op = "deleteNote" /\ moveCall.outcome = "FsError"

\* C25: when removing the note fails (fs.unlink, or the move to the trash),
\* no other note of the vault has had its references to the note rewritten:
\* every other note holds what it held before deleteNote was called
C25_FailedDeleteLeavesLinks ==
  RemovalFailed =>
    \A f \in PathSet : f # moveCall.source => files[f] = moveCall.before[f]

-----------------------------------------------------------------------------
(* Rename frame claims *)

\* the tag is neither old nor below old, as written and as the call
\* normalizes the two
Unrelated(u, old, normalize) ==
  /\ u # old
  /\ ~StartsWith(u, old \o <<"/">>)
  /\ ~Renamed(u, [oldTag |-> old, newTag |-> old], normalize).hit

UnrelatedTags(tags) ==
  SelectSeq(tags, LAMBDA u : Unrelated(u, tagCall.replacements[1].oldTag,
                                       tagCall.options.normalize))

\* C26: when a rename changes the tag list or the text of a note, every tag
\* of the list and every live inline tag that is neither oldTag nor a
\* descendant of oldTag is written back with the characters and the case it
\* had, with normalize on and with normalize off
C26_RenameKeepsUnrelatedTags ==
  /\ (tagCall.op = "updateFrontmatterTags" /\ tagCall.out.changes # <<>>)
       => LET kept == UnrelatedTags(ExistingTags(tagCall.frontmatter))
          IN \A i \in 1..Len(kept) :
               Contains(ExistingTags(tagCall.out.frontmatter), kept[i])
  /\ (tagCall.op = "updateInlineTags" /\ tagCall.out.changes # <<>>)
       => LET kept == UnrelatedTags(extractTags(tagCall.content))
          IN \A i \in 1..Len(kept) : Contains(extractTags(tagCall.out.content), kept[i])

-----------------------------------------------------------------------------
(* Rename completeness claims *)

\* the tag is old or a descendant of old
AtOrBelow(tag, old) == tag = old \/ StartsWith(tag, old \o <<"/">>)

\* the frontmatter tags and the live inline tags of a note
TagsOfNote(content) ==
  ExistingTags(parseNote(content).frontmatter) \o extractTags(parseNote(content).content)

\* the tags of the notes of the vault that are oldTag or below it
OldTagsLeft ==
  {f \in PathSet :
     /\ files[f] # Absent
     /\ \E i \in 1..Len(TagsOfNote(files[f])) :
          AtOrBelow(TagsOfNote(files[f])[i], batchCall.oldTag)}

-----------------------------------------------------------------------------
(* Normalized tag claims *)

\* C28: the tag normalizeTag makes of a tag validateTag accepts is accepted
\* by validateTag as well, and extractTags returns it whole from a body that
\* holds it written as #tag
C28_NormalizedTagIsValidAndExtractedWhole ==
  (tagCall.op = "normalizeTag" /\ validateTag(tagCall.tags[1]))
    => /\ validateTag(tagCall.out.once)
       /\ extractTags(<<"#">> \o tagCall.out.once) = <<tagCall.out.once>>

-----------------------------------------------------------------------------
(* removeTags frame claims *)

RemoveReturned == batchCall.op = "removeTags" /\ batchCall.outcome = "returned"

\* the note holds no tag that is one of the target tags or below one
HoldsNoTarget(content) ==
  \A i \in 1..Len(TagsOfNote(content)), k \in 1..Len(batchCall.tags) :
    ~AtOrBelow(normalizeTag(TagsOfNote(content)[i], TRUE),
               normalizeTag(batchCall.tags[k], TRUE))

\* C29: removeTags, called without patterns for a note that holds none of
\* the target tags, leaves the content of the note's file as it was,
\* character for character, and does not list the note as a success
C29_RemoveTagsLeavesUntaggedNote ==
  RemoveReturned =>
    \A f \in PathSet :
      (/\ Contains(batchCall.targets, f)
       /\ batchCall.before[f] # Absent
       /\ HoldsNoTarget(batchCall.before[f]))
        => /\ files[f] = batchCall.before[f]
           /\ f \notin SucceededNotes

------------------------------------------------------------------------------
(* addTags idempotence claims *)

\* addTags has returned from a call given the same tags and options as the
\* call before it
AddRepeated ==
  /\ batchCall.op = "addTags"
  /\ batchCall.outcome = "returned"
  /\ batchCall.previous.op = "addTags"
  /\ batchCall.previous.tags = batchCall.tags
  /\ batchCall.previous.location = batchCall.location
  /\ batchCall.previous.position = batchCall.position

\* C30: addTags is idempotent: applying addTags with the same tags and
\* options to the same note a second time leaves the note's file content as
\* the first application left it, for every location option.
C30_AddTagsIdempotent ==
  AddRepeated =>
    \A f \in PathSet :
      (/\ Contains(batchCall.targets, f)
       /\ Contains(batchCall.previous.targets, f))
        => files[f] = batchCall.before[f]

------------------------------------------------------------------------------
(* Overlapping edit claims *)

Finished(e) == ed[e].pc \in {"done", "thrown"}

\* the two invocations ran at once and both have finished
BothFinished ==
  /\ \A e \in Editors : ed[e].operation # "none" /\ Finished(e)
  /\ \E e \in Editors : ed[e].overlapped

\* what the invocation meant the note file to hold
Intended(e) == IF ed[e].operation = "delete" THEN Absent ELSE ed[e].newContent

\* C23: when two editNote invocations on one note overlap, the last writer
\* wins: once both have finished, the note holds the new content of the
\* invocation whose write to the note was performed last.
C23_LastWriterWins ==
  BothFinished =>
    \A e \in Editors : ed[e].wroteLast => note = Intended(e)

------------------------------------------------------------------------------
(* Rename run claims *)

\* the notes whose callback has started and has not finished
RunInFlight == {f \in PathSet : batchCall.phase[f] \in {"reading", "writing"}}

\* a note is touched only when every note listed before it, other than the
\* notes of its own batch, has finished
BatchesInTurn ==
  \A p \in 1..Len(batchCall.listed), q \in 1..Len(batchCall.listed) :
    (/\ p < q
     /\ batchCall.phase[batchCall.listed[q]] # "none"
     /\ ~(/\ Contains(batchCall.batch, batchCall.listed[p])
          /\ Contains(batchCall.batch, batchCall.listed[q])))
      => batchCall.phase[batchCall.listed[p]] = "finished"

\* C21: renameTag processes its batches strictly one after another: no note
\* of a later batch is read or written before every note of the batch
\* before it has finished, and at no moment are more than batchSize notes in
\* flight.
C21_BatchesSequentialAndBounded ==
  batchCall.op = "renameTag" =>
    /\ BatchesInTurn
    /\ RunInFlight \subseteq {batchCall.batch[k] : k \in 1..Len(batchCall.batch)}
    /\ RunInFlight # {} => Cardinality(RunInFlight) <= batchCall.batchSize

\* C22: an in-flight batch rename runs to completion: whatever batchSize it
\* was called with, renameTag eventually returns its report, and every note
\* of the vault has then been handed to processBatch exactly once.
C22_RenameRunsToCompletion ==
  (batchCall.pc = "loop") ~>
    (/\ batchCall.pc = "returned"
     /\ \A k \in 1..Len(batchCall.listed) : batchCall.handed[batchCall.listed[k]] = 1)

=============================================================================
